---- MODULE Spec2Model ----
(***************************************************************************)
(* Drop2Smart ML service: texture classification, SoilGrids fetch and      *)
(* normalisation, Ksat prediction (single and batch), the synthetic        *)
(* training generator, the annotators, and the groundwater and rainfall    *)
(* lookups with their endpoints.                                           *)
(*                                                                         *)
(* Real numbers are fixed-point integers: the integer n stands for         *)
(* n / Scale.  Percentages, organic carbon and Ksat all use this scale.    *)
(***************************************************************************)
EXTENDS Integers, Sequences, FiniteSets, TLC

VARIABLES
    \* --- classifier harness: one (sand, silt, clay) triple through the three classifiers
    triple,          \* [sand, silt, clay], fixed-point percentages
    trainer_out,     \* <<>> or <<label, code>> of KsatModelTrainer._classify_soil_texture
    predictor_out,   \* <<>> or <<label, code>> of SoilPredictor._classify_soil_texture
    utils_out,       \* <<>> or <<label, code>> of utils.classify_soil_texture
    decoded,         \* "" or SoilPredictor._get_texture_name(predictor_out[2])
    \* --- serving: one request against the service
    startup,         \* "pending", "done" or "failed": main.startup_event
    model,           \* SoilPredictor.model: "None", "loaded", "unfitted" or "trained"
    is_model_ready,  \* SoilPredictor.is_model_ready
    endpoint,        \* "none" or the operation that was called
    pc,              \* position of the request handler
    upstream,        \* answers the soil-property provider gave so far, in fetch order
    soil_results,    \* the soil_results dict of the running get_soil_properties
    soil_data,       \* SoilData built by _convert_soilgrids_data
    raw_prediction,  \* what model.predict did: [status, value]
    payload,         \* what the endpoint answers with: prediction body or soil_results
    http_status,     \* 0 while running, then the status code of the answer
    request,         \* what the caller sent: [coordinates, years, composition]
    predictions,     \* batch_predict_ksat: the predictions list
    failed_predictions, \* batch_predict_ksat: the failed_predictions list
    rainfall_calls,  \* how many times the precipitation provider was called
    raised,          \* "" or the exception a direct call of SoilPredictor.predict raised
    \* --- synthetic generator
    rng_tape,        \* the stream of the process-global numpy generator (set by OS entropy)
    rng_pos,         \* how many draws were consumed from it
    runs,            \* outputs of the _generate_synthetic_data calls made so far
    \* --- annotator harness: two Ksat values and a soil dict through the annotators
    ksat_values,     \* <<k1, k2>> with k1 <= k2, fixed-point Ksat
    soil_dict,       \* the soil_data dict given to calculate_confidence_score
    format_out,      \* <<>> or utils.format_soil_analysis of k1 and of k2
    analyze_out,     \* <<>> or SoilPredictor._analyze_soil of k1 and of k2
    confidence_out,  \* <<>> or <<calculate_confidence_score, confidence of predict,
                     \*   [unclamped, returned] doubles of calculate_confidence_score>> of k2
    \* --- lookups: the groundwater table and the rainfall ladder
    groundwater_data,   \* GroundwaterService.groundwater_data, as loaded from the JSON file
    gw_query,           \* [state, district, location] asked for
    gw_analysis,        \* <<>> or <<result of analyze_location_risk>>
    annual_rainfall_mm, \* fixed-point millimetres per year
    rainfall_category,  \* "" or RainfallService._categorize_rainfall(annual_rainfall_mm)
    \* --- trainer: one KsatModelTrainer object and the directory it saves to
    trainer,         \* the object's [model, best_params, training_stats]
    storage,         \* [dir, model_file, metadata_file] of the models directory
    last_call,       \* what the last call on the trainer was and how it ended
    trainer_calls,   \* how many calls were made on the trainer
    \* --- service lifecycle: SoilPredictor.initialize, then requests running concurrently
    model_file,      \* models/ksat_model.pkl: "absent", "stored", "partial" or "written"
    init_log,        \* what SoilPredictor.initialize did
    texture_encoding, \* SoilPredictor.texture_encoding
    best_params,     \* SoilPredictor.best_params
    tasks,           \* the request handlers in flight, each with its locals
    frames           \* the soil_results local of each running get_soil_properties

cvars == <<triple, trainer_out, predictor_out, utils_out, decoded>>
svars == <<startup, model, is_model_ready, endpoint, pc, upstream, soil_results, soil_data,
           raw_prediction, payload, http_status, request, predictions, failed_predictions,
           rainfall_calls, raised>>
\* the part of the serving state only the batch, rainfall and direct-call operations write
bvars == <<predictions, failed_predictions, rainfall_calls, raised>>
gvars == <<rng_tape, rng_pos, runs>>
avars == <<ksat_values, soil_dict, format_out, analyze_out, confidence_out>>
lvars == <<groundwater_data, gw_query, gw_analysis, annual_rainfall_mm, rainfall_category>>
tvars == <<trainer, storage, last_call, trainer_calls>>
pvars == <<model_file, init_log, texture_encoding, best_params, tasks, frames>>
vars == <<triple, trainer_out, predictor_out, utils_out, decoded,
          startup, model, is_model_ready, endpoint, pc, upstream, soil_results,
          soil_data, raw_prediction, payload, http_status, request, predictions,
          failed_predictions, rainfall_calls, raised, rng_tape, rng_pos, runs,
          ksat_values, soil_dict, format_out, analyze_out, confidence_out,
          groundwater_data, gw_query, gw_analysis, annual_rainfall_mm, rainfall_category,
          trainer, storage, last_call, trainer_calls,
          model_file, init_log, texture_encoding, best_params, tasks, frames>>

\* fixed-point denominator: 0.001 is the finest factor the code multiplies by
Scale == 1000

(***************************************************************************)
(* Python helpers                                                          *)
(***************************************************************************)

\* Python's max(a, b) / min(a, b) on numbers
PyMax(a, b) == IF b > a THEN b ELSE a

PyMin(a, b) == IF b < a THEN b ELSE a

\* dict.get(key, default) on an insertion-ordered dict kept as a sequence of <<key, value>>
DictGet(items, key, default) ==
    IF \E i \in 1..Len(items) : items[i][1] = key
    THEN items[CHOOSE i \in 1..Len(items) :
                 /\ items[i][1] = key
                 /\ \A j \in 1..(i - 1) : items[j][1] # key][2]
    ELSE default

(***************************************************************************)
(* Texture encoding tables                                                 *)
(***************************************************************************)

\* KsatModelTrainer.texture_encoding
trainer_texture_encoding ==
    << <<"SANDY LOAMY", 6>>, <<"SANDY CLAY", 5>>, <<"LOAM", 2>>, <<"CLAY LOAM", 1>>,
       <<"CLAY", 0>>, <<"SILTY LOAM", 9>>, <<"LOAMY SAND", 3>>,
       <<"SILTY CLAY LOAM", 8>>, <<"SILTY CLAY", 7>>, <<"SAND", 4>>,
       <<"SANDY LOAM", 10>>, <<"SANDY CLAY LOAM", 11>>, <<"SILT", 12>>,
       <<"Unknown", -1>> >>

\* SoilPredictor.texture_encoding
predictor_texture_encoding ==
    << <<"SANDY LOAMY", 6>>, <<"SANDY CLAY", 5>>, <<"LOAM", 2>>, <<"CLAY LOAM", 1>>,
       <<"CLAY", 0>>, <<"SILTY LOAM", 9>>, <<"LOAMY SAND", 3>>,
       <<"SILTY CLAY LOAM", 8>>, <<"SILTY CLAY", 7>>, <<"SAND", 4>>,
       <<"SANDY LOAM", 10>>, <<"SANDY CLAY LOAM", 11>>, <<"Unknown", -1>> >>

\* the texture_encoding local of utils.classify_soil_texture
utils_texture_encoding ==
    << <<"SANDY LOAMY", 6>>, <<"SANDY CLAY", 5>>, <<"LOAM", 2>>, <<"CLAY LOAM", 1>>,
       <<"CLAY", 0>>, <<"SILTY LOAM", 9>>, <<"LOAMY SAND", 3>>,
       <<"SILTY CLAY LOAM", 8>>, <<"SILTY CLAY", 7>>, <<"SAND", 4>>,
       <<"SANDY LOAM", 10>>, <<"SANDY CLAY LOAM", 11>>, <<"Unknown", -1>> >>

(***************************************************************************)
(* The three copies of the classification cascade                          *)
(***************************************************************************)

\* the cascade of the trainer with its SILTY CLAY rule ahead of its SANDY CLAY rule
trainer_texture_name_silty_clay_first(sand_pct, silt_pct, clay_pct) ==
    IF silt_pct + clay_pct < 20 * Scale THEN "SAND"
    ELSE IF sand_pct > 52 * Scale /\ silt_pct < 50 * Scale /\ clay_pct < 20 * Scale
        THEN "LOAMY SAND"
    ELSE IF sand_pct > 52 * Scale
            /\ (silt_pct >= 50 * Scale \/ (silt_pct < 50 * Scale /\ clay_pct >= 20 * Scale))
        THEN "SANDY LOAM"
    ELSE IF silt_pct >= 80 * Scale /\ clay_pct < 12 * Scale THEN "SILT"
    ELSE IF silt_pct >= 50 * Scale /\ (clay_pct >= 12 * Scale /\ clay_pct < 27 * Scale)
        THEN "SILTY LOAM"
    ELSE IF clay_pct >= 27 * Scale /\ sand_pct <= 45 * Scale THEN "CLAY LOAM"
    ELSE IF clay_pct >= 20 * Scale /\ clay_pct < 27 * Scale /\ silt_pct >= 28 * Scale
            /\ silt_pct < 50 * Scale /\ sand_pct <= 52 * Scale
        THEN "LOAM"
    ELSE IF clay_pct >= 35 * Scale /\ silt_pct > 40 * Scale THEN "SILTY CLAY"
    ELSE IF clay_pct >= 35 * Scale /\ sand_pct > 45 * Scale THEN "SANDY CLAY"
    ELSE IF clay_pct >= 27 * Scale /\ clay_pct < 40 * Scale /\ sand_pct > 45 * Scale
        THEN "SANDY CLAY LOAM"
    ELSE IF clay_pct >= 27 * Scale /\ clay_pct < 40 * Scale /\ silt_pct > 28 * Scale
            /\ sand_pct <= 45 * Scale
        THEN "SILTY CLAY LOAM"
    ELSE "Unknown"

\* texture_name of KsatModelTrainer._classify_soil_texture
trainer_texture_name(sand_pct, silt_pct, clay_pct) ==
    IF silt_pct + clay_pct < 20 * Scale THEN "SAND"
    ELSE IF sand_pct > 52 * Scale /\ silt_pct < 50 * Scale /\ clay_pct < 20 * Scale
        THEN "LOAMY SAND"
    ELSE IF sand_pct > 52 * Scale
            /\ (silt_pct >= 50 * Scale \/ (silt_pct < 50 * Scale /\ clay_pct >= 20 * Scale))
        THEN "SANDY LOAM"
    ELSE IF silt_pct >= 80 * Scale /\ clay_pct < 12 * Scale THEN "SILT"
    ELSE IF silt_pct >= 50 * Scale /\ (clay_pct >= 12 * Scale /\ clay_pct < 27 * Scale)
        THEN "SILTY LOAM"
    ELSE IF clay_pct >= 27 * Scale /\ sand_pct <= 45 * Scale THEN "CLAY LOAM"
    ELSE IF clay_pct >= 20 * Scale /\ clay_pct < 27 * Scale /\ silt_pct >= 28 * Scale
            /\ silt_pct < 50 * Scale /\ sand_pct <= 52 * Scale
        THEN "LOAM"
    ELSE IF clay_pct >= 35 * Scale /\ sand_pct > 45 * Scale THEN "SANDY CLAY"
    ELSE IF clay_pct >= 35 * Scale /\ silt_pct > 40 * Scale THEN "SILTY CLAY"
    ELSE IF clay_pct >= 27 * Scale /\ clay_pct < 40 * Scale /\ sand_pct > 45 * Scale
        THEN "SANDY CLAY LOAM"
    ELSE IF clay_pct >= 27 * Scale /\ clay_pct < 40 * Scale /\ silt_pct > 28 * Scale
            /\ sand_pct <= 45 * Scale
        THEN "SILTY CLAY LOAM"
    ELSE "Unknown"

\* KsatModelTrainer._classify_soil_texture
trainer_classify_soil_texture(sand_pct, silt_pct, clay_pct) ==
    LET texture_name == trainer_texture_name(sand_pct, silt_pct, clay_pct)
    IN  <<texture_name,
          DictGet(trainer_texture_encoding, texture_name,
                  DictGet(trainer_texture_encoding, "Unknown", "KeyError"))>>

\* texture_name of SoilPredictor._classify_soil_texture
predictor_texture_name(sand_pct, silt_pct, clay_pct) ==
    IF silt_pct + clay_pct < 20 * Scale THEN "SAND"
    ELSE IF sand_pct > 52 * Scale /\ silt_pct < 50 * Scale /\ clay_pct < 20 * Scale
        THEN "LOAMY SAND"
    ELSE IF sand_pct > 52 * Scale
            /\ (silt_pct >= 50 * Scale \/ (silt_pct < 50 * Scale /\ clay_pct >= 20 * Scale))
        THEN "SANDY LOAM"
    ELSE IF silt_pct >= 80 * Scale /\ clay_pct < 12 * Scale THEN "SILT"
    ELSE IF silt_pct >= 50 * Scale /\ (clay_pct >= 12 * Scale /\ clay_pct < 27 * Scale)
        THEN "SILT LOAM"
    ELSE IF clay_pct >= 27 * Scale /\ sand_pct <= 45 * Scale THEN "CLAY LOAM"
    ELSE IF clay_pct >= 20 * Scale /\ clay_pct < 27 * Scale /\ silt_pct >= 28 * Scale
            /\ silt_pct < 50 * Scale /\ sand_pct <= 52 * Scale
        THEN "LOAM"
    ELSE IF clay_pct >= 35 * Scale /\ sand_pct > 45 * Scale THEN "SANDY CLAY"
    ELSE IF clay_pct >= 35 * Scale /\ silt_pct > 40 * Scale THEN "SILTY CLAY"
    ELSE IF clay_pct >= 27 * Scale /\ clay_pct < 40 * Scale /\ sand_pct > 45 * Scale
        THEN "SANDY CLAY LOAM"
    ELSE IF clay_pct >= 27 * Scale /\ clay_pct < 40 * Scale /\ silt_pct > 28 * Scale
            /\ sand_pct <= 45 * Scale
        THEN "SILTY CLAY LOAM"
    ELSE "Unknown"

\* SoilPredictor._classify_soil_texture
predictor_classify_soil_texture(sand_pct, silt_pct, clay_pct) ==
    LET texture_name == predictor_texture_name(sand_pct, silt_pct, clay_pct)
    IN  <<texture_name,
          DictGet(predictor_texture_encoding, texture_name,
                  DictGet(predictor_texture_encoding, "Unknown", "KeyError"))>>

\* the cascade with its first two rules swapped: LOAMY SAND tried before SAND
utils_texture_name_loamy_first(sand_pct, silt_pct, clay_pct) ==
    IF sand_pct > 52 * Scale /\ silt_pct < 50 * Scale /\ clay_pct < 20 * Scale
        THEN "LOAMY SAND"
    ELSE predictor_texture_name(sand_pct, silt_pct, clay_pct)

\* the cascade of utils.classify_soil_texture with a strict clay bound in its sixth rule
utils_texture_name_strict_clay(sand_pct, silt_pct, clay_pct) ==
    IF silt_pct + clay_pct < 20 * Scale THEN "SAND"
    ELSE IF sand_pct > 52 * Scale /\ silt_pct < 50 * Scale /\ clay_pct < 20 * Scale
        THEN "LOAMY SAND"
    ELSE IF sand_pct > 52 * Scale
            /\ (silt_pct >= 50 * Scale \/ (silt_pct < 50 * Scale /\ clay_pct >= 20 * Scale))
        THEN "SANDY LOAM"
    ELSE IF silt_pct >= 80 * Scale /\ clay_pct < 12 * Scale THEN "SILT"
    ELSE IF silt_pct >= 50 * Scale /\ (clay_pct >= 12 * Scale /\ clay_pct < 27 * Scale)
        THEN "SILT LOAM"
    ELSE IF clay_pct > 27 * Scale /\ sand_pct <= 45 * Scale THEN "CLAY LOAM"
    ELSE IF clay_pct >= 20 * Scale /\ clay_pct < 27 * Scale /\ silt_pct >= 28 * Scale
            /\ silt_pct < 50 * Scale /\ sand_pct <= 52 * Scale
        THEN "LOAM"
    ELSE IF clay_pct >= 35 * Scale /\ sand_pct > 45 * Scale THEN "SANDY CLAY"
    ELSE IF clay_pct >= 35 * Scale /\ silt_pct > 40 * Scale THEN "SILTY CLAY"
    ELSE IF clay_pct >= 27 * Scale /\ clay_pct < 40 * Scale /\ sand_pct > 45 * Scale
        THEN "SANDY CLAY LOAM"
    ELSE IF clay_pct >= 27 * Scale /\ clay_pct < 40 * Scale /\ silt_pct > 28 * Scale
            /\ sand_pct <= 45 * Scale
        THEN "SILTY CLAY LOAM"
    ELSE "Unknown"

\* texture_name of utils.classify_soil_texture
utils_texture_name(sand_pct, silt_pct, clay_pct) ==
    IF silt_pct + clay_pct < 20 * Scale THEN "SAND"
    ELSE IF sand_pct > 52 * Scale /\ silt_pct < 50 * Scale /\ clay_pct < 20 * Scale
        THEN "LOAMY SAND"
    ELSE IF sand_pct > 52 * Scale
            /\ (silt_pct >= 50 * Scale \/ (silt_pct < 50 * Scale /\ clay_pct >= 20 * Scale))
        THEN "SANDY LOAM"
    ELSE IF silt_pct >= 80 * Scale /\ clay_pct < 12 * Scale THEN "SILT"
    ELSE IF silt_pct >= 50 * Scale /\ (clay_pct >= 12 * Scale /\ clay_pct < 27 * Scale)
        THEN "SILT LOAM"
    ELSE IF clay_pct >= 27 * Scale /\ sand_pct <= 45 * Scale THEN "CLAY LOAM"
    ELSE IF clay_pct >= 20 * Scale /\ clay_pct < 27 * Scale /\ silt_pct >= 28 * Scale
            /\ silt_pct < 50 * Scale /\ sand_pct <= 52 * Scale
        THEN "LOAM"
    ELSE IF clay_pct >= 35 * Scale /\ sand_pct > 45 * Scale THEN "SANDY CLAY"
    ELSE IF clay_pct >= 35 * Scale /\ silt_pct > 40 * Scale THEN "SILTY CLAY"
    ELSE IF clay_pct >= 27 * Scale /\ clay_pct < 40 * Scale /\ sand_pct > 45 * Scale
        THEN "SANDY CLAY LOAM"
    ELSE IF clay_pct >= 27 * Scale /\ clay_pct < 40 * Scale /\ silt_pct > 28 * Scale
            /\ sand_pct <= 45 * Scale
        THEN "SILTY CLAY LOAM"
    ELSE "Unknown"

\* a label missing from the table gets the next free code instead of the code of "Unknown"
classify_soil_texture_next_code(sand_pct, silt_pct, clay_pct) ==
    LET texture_name == utils_texture_name(sand_pct, silt_pct, clay_pct)
    IN  <<texture_name,
          DictGet(utils_texture_encoding, texture_name, Len(utils_texture_encoding))>>

\* utils.classify_soil_texture
classify_soil_texture(sand_pct, silt_pct, clay_pct) ==
    LET texture_name == utils_texture_name(sand_pct, silt_pct, clay_pct)
    IN  <<texture_name,
          DictGet(utils_texture_encoding, texture_name,
                  DictGet(utils_texture_encoding, "Unknown", "KeyError"))>>

\* SoilPredictor._get_texture_name: the first name of the table holding the value
get_texture_name(encoded_value) ==
    LET items == predictor_texture_encoding
    IN  IF \E i \in 1..Len(items) : items[i][2] = encoded_value
        THEN items[CHOOSE i \in 1..Len(items) :
                     /\ items[i][2] = encoded_value
                     /\ \A j \in 1..(i - 1) : items[j][2] # encoded_value][1]
        ELSE "Unknown"

(***************************************************************************)
(* Classifier harness: one triple, each classifier applied to it           *)
(***************************************************************************)

\* how far around each threshold of the cascade the inputs are drawn (in 1/Scale percent)
GridRadius == 1

\* the percentages the cascade compares sand_pct / silt_pct / clay_pct with
SandThresholds == {45, 52}

SiltThresholds == {20, 28, 40, 50, 80}

ClayThresholds == {12, 20, 27, 35, 40}

\* 0, 100 and the values at and around every threshold, within [0, 100]
Grid(thresholds) ==
    {0, 100 * Scale} \cup
    {v \in {t * Scale + d : t \in thresholds, d \in (0 - GridRadius)..GridRadius} :
        v >= 0 /\ v <= 100 * Scale}

\* SoilData before _convert_soilgrids_data has run
NoSoilData ==
    [clay |-> 0, silt |-> 0, sand |-> 0, organic_carbon |-> 0, texture_encoded |-> 0]

\* model.predict not called yet
NoPrediction == [status |-> "none", value |-> 0]

\* no request received yet
NoRequest ==
    [coordinates |-> <<>>, years |-> 0, composition |-> [sand |-> 0, silt |-> 0, clay |-> 0]]

ServeIdle ==
    /\ startup = "pending"
    /\ model = "None"
    /\ is_model_ready = FALSE
    /\ endpoint = "none"
    /\ pc = "idle"
    /\ upstream = <<>>
    /\ soil_results = <<>>
    /\ soil_data = NoSoilData
    /\ raw_prediction = NoPrediction
    /\ payload = <<>>
    /\ http_status = 0
    /\ request = NoRequest
    /\ predictions = <<>>
    /\ failed_predictions = <<>>
    /\ rainfall_calls = 0
    /\ raised = ""

AnnotateIdle ==
    /\ ksat_values = <<0, 0>>
    /\ soil_dict = <<>>
    /\ format_out = <<>>
    /\ analyze_out = <<>>
    /\ confidence_out = <<>>

LookupIdle ==
    /\ groundwater_data = <<>>
    /\ gw_query = [state |-> "", district |-> "", location |-> ""]
    /\ gw_analysis = <<>>
    /\ annual_rainfall_mm = 0
    /\ rainfall_category = ""

\* KsatModelTrainer.__init__: no model, no best_params, empty training_stats
NewTrainer == [model |-> <<>>, best_params |-> <<>>, training_stats |-> <<>>]

\* a models directory that does not exist yet
EmptyStorage == [dir |-> FALSE, model_file |-> <<>>, metadata_file |-> <<>>]

\* no call made on the trainer yet
NoCall ==
    [call |-> "none", raised |-> "", trained_before |-> FALSE,
     storage_before |-> EmptyStorage, save_reached |-> FALSE, train_completed |-> FALSE]

TrainIdle ==
    /\ trainer = NewTrainer
    /\ storage = EmptyStorage
    /\ last_call = NoCall
    /\ trainer_calls = 0

\* how many request handlers run in the lifecycle specification
MaxRequests == 2

\* SoilPredictor.best_params as __init__ sets it (two of its entries)
predictor_best_params == [max_depth |-> 8, n_estimators |-> 500]

\* a handler slot no request has taken yet
NoTask ==
    [endpoint |-> "none", pc |-> "idle", coordinates |-> <<>>, item |-> 0,
     upstream |-> <<>>, results |-> <<>>, answer |-> <<>>]

\* SoilPredictor.initialize has not run
NoInit == [file_before |-> "absent", loaded |-> FALSE, trained |-> FALSE, writes |-> 0,
           raised |-> FALSE]

LifeIdle ==
    /\ model_file = "absent"
    /\ init_log = NoInit
    /\ texture_encoding = predictor_texture_encoding
    /\ best_params = predictor_best_params
    /\ tasks = [t \in 1..MaxRequests |-> NoTask]
    /\ frames = [t \in 1..MaxRequests |-> <<>>]

GenIdle ==
    /\ rng_tape = <<>>
    /\ rng_pos = 0
    /\ runs = <<>>

ClassifyIdle ==
    /\ triple = [sand |-> 0, silt |-> 0, clay |-> 0]
    /\ trainer_out = <<>>
    /\ predictor_out = <<>>
    /\ utils_out = <<>>
    /\ decoded = ""

InitClassify ==
    /\ triple \in [sand : Grid(SandThresholds), silt : Grid(SiltThresholds),
                   clay : Grid(ClayThresholds)]
    /\ trainer_out = <<>>
    /\ predictor_out = <<>>
    /\ utils_out = <<>>
    /\ decoded = ""
    /\ ServeIdle
    /\ GenIdle
    /\ AnnotateIdle
    /\ LookupIdle
    /\ TrainIdle
    /\ LifeIdle

\* the training path classifies the triple
ClassifyTrainer ==
    /\ trainer_out = <<>>
    /\ trainer_out' = trainer_classify_soil_texture(triple.sand, triple.silt, triple.clay)
    /\ UNCHANGED <<triple, predictor_out, utils_out, decoded>>
    /\ UNCHANGED svars
    /\ UNCHANGED gvars
    /\ UNCHANGED avars
    /\ UNCHANGED lvars
    /\ UNCHANGED tvars
    /\ UNCHANGED pvars

\* the serving path classifies the triple
ClassifyPredictor ==
    /\ predictor_out = <<>>
    /\ predictor_out' = predictor_classify_soil_texture(triple.sand, triple.silt, triple.clay)
    /\ UNCHANGED <<triple, trainer_out, utils_out, decoded>>
    /\ UNCHANGED svars
    /\ UNCHANGED gvars
    /\ UNCHANGED avars
    /\ UNCHANGED lvars
    /\ UNCHANGED tvars
    /\ UNCHANGED pvars

\* the /texture-classification helper classifies the triple
ClassifyUtils ==
    /\ utils_out = <<>>
    /\ utils_out' = classify_soil_texture(triple.sand, triple.silt, triple.clay)
    /\ UNCHANGED <<triple, trainer_out, predictor_out, decoded>>
    /\ UNCHANGED svars
    /\ UNCHANGED gvars
    /\ UNCHANGED avars
    /\ UNCHANGED lvars
    /\ UNCHANGED tvars
    /\ UNCHANGED pvars

\* the serving path decodes the code it stored (SoilPredictor._analyze_soil, texture_class)
DecodeTexture ==
    /\ predictor_out # <<>>
    /\ decoded = ""
    /\ decoded' = get_texture_name(predictor_out[2])
    /\ UNCHANGED <<triple, trainer_out, predictor_out, utils_out>>
    /\ UNCHANGED svars
    /\ UNCHANGED gvars
    /\ UNCHANGED avars
    /\ UNCHANGED lvars
    /\ UNCHANGED tvars
    /\ UNCHANGED pvars

NextClassify ==
    \/ ClassifyTrainer
    \/ ClassifyPredictor
    \/ ClassifyUtils
    \/ DecodeTexture

SpecClassify == InitClassify /\ [][NextClassify]_vars

(***************************************************************************)
(* Serving path: SoilGrids fetch, unit conversion, prediction              *)
(***************************************************************************)

\* number of raw levels the provider's mean values are drawn from (0..1000 scale)
MaxRawLevels == 2

\* largest magnitude the regressor's raw output is drawn from (whole Ksat units)
MaxRawKsat == 400

RawValues == {(1000 * k) \div MaxRawLevels : k \in 0..MaxRawLevels}

\* what the provider can do with the GET of one property:
\*   ok      status 200 and a mean value
\*   null    status 200 and mean is None
\*   missing status 200 and the path to the mean raises KeyError / IndexError
\*   status  a status other than 200
\*   raise   session.get or response.json() raises (network error, timeout, bad body)
Responses ==
    [kind : {"ok"}, value : RawValues]
        \cup [kind : {"null", "missing", "status", "raise"}, value : {0}]

\* values model.predict can return: below 1, above 300, in between, and the ladders' steps
RegressorOutputs ==
    {0 - MaxRawKsat * Scale, -1, 0, Scale - 1, Scale, 20 * Scale, 50 * Scale,
     100 * Scale, 300 * Scale, 300 * Scale + 1, MaxRawKsat * Scale}

\* properties_to_query, in fetch order
properties_to_query == <<"sand", "silt", "clay", "ocd">>

\* the dict literal both get_soil_properties fall back on when the fetch raises
default_soil_results ==
    ("sand" :> 400) @@ ("silt" :> 350) @@ ("clay" :> 250) @@ ("ocd" :> 15)

\* utils.get_default_value
get_default_value(property_name) ==
    IF property_name \in DOMAIN default_soil_results
    THEN default_soil_results[property_name]
    ELSE 0

\* d[key] = value on a dict kept as a function
DictSet(d, key, value) == (key :> value) @@ d

\* d.get(key, default) on a dict kept as a function
DictGetOr(d, key, default) == IF key \in DOMAIN d THEN d[key] ELSE default

\* the loop iteration of SoilPredictor.get_soil_properties with no entry stored for a
\* property whose answer is not a usable value
predictor_fetch_step_skip_failed(results, prop, resp) ==
    IF resp.kind = "raise" THEN default_soil_results
    ELSE IF resp.kind = "ok" THEN DictSet(results, prop, resp.value)
    ELSE results

\* one iteration of the loop of SoilPredictor.get_soil_properties, with its except clause
predictor_fetch_step(results, prop, resp) ==
    IF resp.kind = "raise" THEN default_soil_results
    ELSE IF resp.kind = "ok" THEN DictSet(results, prop, resp.value)
    ELSE DictSet(results, prop, 0)

\* one iteration of the loop of utils.get_soil_properties, with its except clause
utils_fetch_step(results, prop, resp) ==
    IF resp.kind = "raise" THEN default_soil_results
    ELSE IF resp.kind = "ok" THEN DictSet(results, prop, resp.value)
    ELSE DictSet(results, prop, get_default_value(prop))

\* utils.convert_soilgrids_units
convert_soilgrids_units(value, property_name) ==
    IF property_name \in {"sand", "silt", "clay"} THEN (value * Scale) \div 10
    ELSE IF property_name = "ocd" THEN (value * Scale) \div 1000
    ELSE value * Scale

\* SoilPredictor._convert_soilgrids_data
convert_soilgrids_data(results) ==
    LET sand_pct == (DictGetOr(results, "sand", 400) * Scale) \div 10
        silt_pct == (DictGetOr(results, "silt", 350) * Scale) \div 10
        clay_pct == (DictGetOr(results, "clay", 250) * Scale) \div 10
        ocd_value == DictGetOr(results, "ocd", 15)
        oc_value == (ocd_value * Scale) \div 1000
        texture == predictor_classify_soil_texture(sand_pct, silt_pct, clay_pct)
    IN  [clay |-> clay_pct, silt |-> silt_pct, sand |-> sand_pct,
         organic_carbon |-> oc_value, texture_encoded |-> texture[2]]

\* the band of the unused generator path, [0.5, 350], applied to the served prediction
clamp_prediction_generator_band(ksat_prediction) ==
    PyMax(Scale \div 2, PyMin(350 * Scale, ksat_prediction))

\* SoilPredictor.predict: max(1.0, min(300.0, float(ksat_prediction)))
clamp_prediction(ksat_prediction) ==
    PyMax(1 * Scale, PyMin(300 * Scale, ksat_prediction))

Abs(x) == IF x < 0 THEN 0 - x ELSE x

\* the confidence of predict without its lower clamp: min(0.9, 0.8 - abs(...) / 200)
predict_confidence_no_floor(ksat_prediction) ==
    PyMin((9 * Scale) \div 10,
          (8 * Scale) \div 10 - Abs(ksat_prediction - 50 * Scale) \div 200)

\* SoilPredictor.predict: min(0.9, max(0.5, 0.8 - abs(ksat_prediction - 50) / 200))
predict_confidence(ksat_prediction) ==
    PyMin((9 * Scale) \div 10,
          PyMax((5 * Scale) \div 10,
                (8 * Scale) \div 10 - Abs(ksat_prediction - 50 * Scale) \div 200))

\* _analyze_soil with thresholds that include the boundary value
analyze_soil_inclusive(ksat_value, data) ==
    LET tier == IF ksat_value >= 100 * Scale THEN <<"High", "Excellent for infiltration">>
                ELSE IF ksat_value >= 50 * Scale THEN <<"Moderate", "Good for infiltration">>
                ELSE IF ksat_value >= 20 * Scale THEN <<"Low", "Fair for infiltration">>
                ELSE <<"Very Low", "Poor for infiltration">>
    IN  [primarySoilType |-> "Silt",
         infiltrationCategory |-> tier[1],
         suitability |-> tier[2],
         texture_class |-> get_texture_name(data.texture_encoded)]

\* SoilPredictor._analyze_soil: the infiltration ladder and the decoded texture.
\* max() over the (name, value) tuples compares the names first, so 'Silt' always wins.
analyze_soil(ksat_value, data) ==
    LET tier == IF ksat_value > 100 * Scale THEN <<"High", "Excellent for infiltration">>
                ELSE IF ksat_value > 50 * Scale THEN <<"Moderate", "Good for infiltration">>
                ELSE IF ksat_value > 20 * Scale THEN <<"Low", "Fair for infiltration">>
                ELSE <<"Very Low", "Poor for infiltration">>
    IN  [primarySoilType |-> "Silt",
         infiltrationCategory |-> tier[1],
         suitability |-> tier[2],
         texture_class |-> get_texture_name(data.texture_encoded)]

\* the result dict of SoilPredictor.predict from the converted data and the raw prediction
predict_result(data, prediction) ==
    LET ksat_prediction == clamp_prediction(prediction)
    IN  [ksat |-> ksat_prediction,
         confidence |-> predict_confidence(ksat_prediction),
         soil_properties |-> data,
         soil_analysis |-> analyze_soil(ksat_prediction, data)]

\* the body main.predict_ksat answers with (coordinates, model_info and timestamp left out)
predict_ksat_response(result) ==
    [ksat |-> result.ksat,
     confidence |-> result.confidence,
     soil_properties |-> result.soil_properties,
     soil_analysis |-> result.soil_analysis]

\* SoilPredictor.is_ready
is_ready == is_model_ready /\ model # "None"

\* the largest batch whose items the model follows to the end
MaxBatchItems == 2

\* main.batch_predict_ksat: "Maximum 100 coordinates allowed per batch"
BatchLimit == 100

NorthEast == [latitude |-> 90 * Scale, longitude |-> 180 * Scale]

SouthWest == [latitude |-> 0 - 90 * Scale, longitude |-> 0 - 180 * Scale]

\* coordinates a caller can send: the corners of the valid range, and each bound
\* overstepped by 1/Scale of a degree
CoordinateInputs ==
    {NorthEast, SouthWest,
     [latitude |-> 90 * Scale + 1, longitude |-> 0],
     [latitude |-> 0 - 90 * Scale - 1, longitude |-> 0],
     [latitude |-> 0, longitude |-> 180 * Scale + 1],
     [latitude |-> 0, longitude |-> 0 - 180 * Scale - 1]}

\* PredictionRequest: latitude Field(ge=-90, le=90), longitude Field(ge=-180, le=180)
prediction_request_valid(coord) ==
    /\ coord.latitude >= 0 - 90 * Scale
    /\ coord.latitude <= 90 * Scale
    /\ coord.longitude >= 0 - 180 * Scale
    /\ coord.longitude <= 180 * Scale

\* a list of n valid coordinates
CoordinateList(n) == [i \in 1..n |-> IF i % 2 = 1 THEN NorthEast ELSE SouthWest]

\* bodies a caller can post to /batch-predict-ksat: lists of up to MaxBatchItems valid
\* coordinates, lists at and above the limit, and lists holding an invalid coordinate
BatchInputs ==
    {CoordinateList(n) : n \in 0..MaxBatchItems}
        \cup {CoordinateList(BatchLimit), CoordinateList(BatchLimit + 1)}
        \cup {<<c>> : c \in CoordinateInputs}
        \cup {<<NorthEast, c>> : c \in CoordinateInputs}
        \cup {Append(CoordinateList(BatchLimit), c) : c \in CoordinateInputs}

\* the years parameter of the rainfall endpoints: default, bounds, and beyond them
YearsInputs == {0, 1, 30, 50, 51}

\* totals (fixed-point millimetres) the precipitation provider's daily series can sum to
RainfallTotals == {0, 12000 * Scale, 60000 * Scale}

RainfallEndpoints == {"rainfall", "rainfall-average", "rainfall-analysis"}

\* sand, silt and clay a caller can send to /texture-classification: in and out of
\* [0, 100], with totals at and around 99 and 101
CompositionInputs ==
    [sand : {0 - 1, 0, 40 * Scale, 100 * Scale, 100 * Scale + 1},
     silt : {0 - 1, 0, 35 * Scale},
     clay : {0, 24 * Scale - 1, 24 * Scale, 26 * Scale, 26 * Scale + 1, 100 * Scale + 1}]

\* main.classify_texture: the two checks that raise HTTPException(400)
classify_texture_status(c) ==
    IF ~(/\ 0 <= c.sand /\ c.sand <= 100 * Scale
         /\ 0 <= c.silt /\ c.silt <= 100 * Scale
         /\ 0 <= c.clay /\ c.clay <= 100 * Scale)
    THEN 400
    ELSE IF Abs(c.sand + c.silt + c.clay - 100 * Scale) > 1 * Scale
    THEN 400
    ELSE 200

\* the rainfall handlers: 503 without the service, then the three input checks
rainfall_request_status(service_ready, coord, years) ==
    IF ~service_ready THEN 503
    ELSE IF ~(0 - 90 * Scale <= coord.latitude /\ coord.latitude <= 90 * Scale) THEN 400
    ELSE IF ~(0 - 180 * Scale <= coord.longitude /\ coord.longitude <= 180 * Scale) THEN 400
    ELSE IF ~(1 <= years /\ years <= 50) THEN 400
    ELSE 0

\* _categorize_rainfall with <= in place of <
categorize_rainfall_inclusive(mm) ==
    IF mm <= 250 * Scale THEN "Arid (Very Low Rainfall)"
    ELSE IF mm <= 500 * Scale THEN "Semi-Arid (Low Rainfall)"
    ELSE IF mm <= 1000 * Scale THEN "Sub-Humid (Moderate Rainfall)"
    ELSE IF mm <= 2000 * Scale THEN "Humid (High Rainfall)"
    ELSE "Very Humid (Very High Rainfall)"

\* RainfallService._categorize_rainfall
categorize_rainfall(mm) ==
    IF mm < 250 * Scale THEN "Arid (Very Low Rainfall)"
    ELSE IF mm < 500 * Scale THEN "Semi-Arid (Low Rainfall)"
    ELSE IF mm < 1000 * Scale THEN "Sub-Humid (Moderate Rainfall)"
    ELSE IF mm < 2000 * Scale THEN "Humid (High Rainfall)"
    ELSE "Very Humid (Very High Rainfall)"

\* round(x, 2) on a non-negative fixed-point value
Round2(x) == ((x + 5) \div 10) * 10

\* RainfallService.get_rainfall_data, from the total of the provider's daily series
rainfall_data(coord, years, total_rainfall) ==
    [latitude |-> coord.latitude,
     longitude |-> coord.longitude,
     total_rainfall_mm |-> Round2(total_rainfall),
     average_annual_rainfall_mm |-> Round2(total_rainfall \div years),
     years_analyzed |-> years]

\* the body each rainfall endpoint answers with
rainfall_response(name, coord, years, total_rainfall) ==
    LET data == rainfall_data(coord, years, total_rainfall)
    IN  IF name = "rainfall-average"
        THEN [coordinates |-> coord,
              average_annual_rainfall_mm |-> data.average_annual_rainfall_mm,
              years_analyzed |-> years]
        ELSE IF name = "rainfall-analysis"
        THEN [latitude |-> data.latitude,
              longitude |-> data.longitude,
              total_rainfall_mm |-> data.total_rainfall_mm,
              average_annual_rainfall_mm |-> data.average_annual_rainfall_mm,
              years_analyzed |-> data.years_analyzed,
              rainfall_category |-> categorize_rainfall(data.average_annual_rainfall_mm)]
        ELSE data

\* the handlers of predict_ksat and batch_predict_ksat without their readiness test
readiness_status_unguarded(predictor_ready) == 0

\* main.predict_ksat / main.batch_predict_ksat: 503 unless the predictor exists and is ready
readiness_status(predictor_ready) == IF ~predictor_ready THEN 503 ELSE 0

\* the length test of batch_predict_ksat written with >=
batch_length_status_inclusive(n) == IF n >= BatchLimit THEN 400 ELSE 0

\* main.batch_predict_ksat: 400 for more than 100 coordinates
batch_length_status(n) == IF n > BatchLimit THEN 400 ELSE 0

\* the entry batch_predict_ksat appends for a prediction that returned; its
\* soil_properties and soil_analysis are those of the result and are left out here
batch_prediction(i, coord, result) ==
    [index |-> i, coordinates |-> coord, ksat |-> result.ksat,
     confidence |-> result.confidence]

\* the entry batch_predict_ksat appends for a prediction that raised
batch_failure(i, coord, error) ==
    [index |-> i, coordinates |-> coord, error |-> error]

RECURSIVE SumKsat(_)
SumKsat(entries) ==
    IF entries = <<>> THEN 0 ELSE entries[1].ksat + SumKsat(Tail(entries))

\* the summary of batch_predict_ksat (median and std left out of ksat_statistics)
batch_summary(coordinates, done, failed) ==
    IF done # <<>>
    THEN [total_requested |-> Len(coordinates),
          successful_predictions |-> Len(done),
          failed_predictions |-> Len(failed),
          ksat_statistics |->
              [mean |-> SumKsat(done) \div Len(done),
               min |-> CHOOSE v \in {done[i].ksat : i \in 1..Len(done)} :
                          \A j \in 1..Len(done) : v <= done[j].ksat,
               max |-> CHOOSE v \in {done[i].ksat : i \in 1..Len(done)} :
                          \A j \in 1..Len(done) : v >= done[j].ksat]]
    ELSE [total_requested |-> Len(coordinates),
          successful_predictions |-> 0,
          failed_predictions |-> Len(failed),
          message |-> "All predictions failed"]

\* the batch loop that gives up at the first prediction that raises
batch_next_pc_abort_on_failure(coordinates, done, failed, item_failed) ==
    IF item_failed \/ Len(done) + Len(failed) = Len(coordinates) THEN "done" ELSE "fetch"

\* the for loop of batch_predict_ksat after item i was recorded: next item, or return
batch_next_pc(coordinates, done, failed, item_failed) ==
    IF Len(done) + Len(failed) = Len(coordinates) THEN "done" ELSE "fetch"

InitServe ==
    /\ ServeIdle
    /\ ClassifyIdle
    /\ GenIdle
    /\ AnnotateIdle
    /\ LookupIdle
    /\ TrainIdle
    /\ LifeIdle

\* main.startup_event / SoilPredictor.initialize: load the stored model when the file
\* exists, else train on synthetic data and save; any exception is re-raised
StartupEvent ==
    /\ startup = "pending"
    /\ endpoint = "none"
    /\ \E file_exists \in BOOLEAN, raises \in BOOLEAN :
          \/ /\ ~raises
             /\ model' = IF file_exists THEN "loaded" ELSE "trained"
             /\ is_model_ready' = TRUE
             /\ startup' = "done"
          \/ /\ raises
             /\ model' \in (IF file_exists THEN {"None"} ELSE {"None", "unfitted", "trained"})
             /\ is_model_ready' = FALSE
             /\ startup' = "failed"
    /\ UNCHANGED <<endpoint, pc, upstream, soil_results, soil_data, raw_prediction,
                   payload, http_status>>
    /\ UNCHANGED <<request, bvars>>
    /\ UNCHANGED cvars
    /\ UNCHANGED gvars
    /\ UNCHANGED avars
    /\ UNCHANGED lvars
    /\ UNCHANGED tvars
    /\ UNCHANGED pvars

\* the global predictor exists and predictor.is_ready()
predictor_ready == startup = "done" /\ is_ready

\* the request body of a single-coordinate operation
CoordinateRequest(coord) ==
    [coordinates |-> <<coord>>, years |-> 0, composition |-> NoRequest.composition]

\* number of batch items already recorded, i.e. the index of the running item
batch_index == Len(predictions) + Len(failed_predictions)

\* main.predict_ksat up to its first await: the body is validated as a PredictionRequest
\* (422 before the handler runs), then 503 unless the predictor is ready, else
\* SoilPredictor.predict starts get_soil_properties (its own is_model_ready test raises
\* into the handler's except clause, which answers 500)
ReceivePredictKsat ==
    /\ endpoint = "none"
    /\ startup # "failed"
    /\ endpoint' = "predict-ksat"
    /\ \E coord \in CoordinateInputs :
          /\ request' = CoordinateRequest(coord)
          /\ IF ~prediction_request_valid(coord)
             THEN /\ http_status' = 422
                  /\ pc' = "done"
             ELSE IF readiness_status(predictor_ready) # 0
             THEN /\ http_status' = readiness_status(predictor_ready)
                  /\ pc' = "done"
             ELSE IF ~is_model_ready
             THEN /\ http_status' = 500
                  /\ pc' = "done"
             ELSE /\ http_status' = 0
                  /\ pc' = "fetch"
    /\ soil_results' = <<>>
    /\ UNCHANGED <<startup, model, is_model_ready, upstream, soil_data, raw_prediction,
                   payload>>
    /\ UNCHANGED bvars
    /\ UNCHANGED cvars
    /\ UNCHANGED gvars
    /\ UNCHANGED avars
    /\ UNCHANGED lvars
    /\ UNCHANGED tvars
    /\ UNCHANGED pvars

\* a direct call of SoilPredictor.predict(latitude, longitude) on the constructed
\* predictor: RuntimeError unless is_model_ready, else get_soil_properties starts
CallPredict ==
    /\ endpoint = "none"
    /\ startup # "failed"
    /\ endpoint' = "predict"
    /\ request' = CoordinateRequest([latitude |-> 0, longitude |-> 0])
    /\ IF ~is_model_ready
       THEN /\ raised' = "RuntimeError"
            /\ pc' = "done"
       ELSE /\ raised' = ""
            /\ pc' = "fetch"
    /\ soil_results' = <<>>
    /\ UNCHANGED <<startup, model, is_model_ready, upstream, soil_data, raw_prediction,
                   payload, http_status, predictions, failed_predictions, rainfall_calls>>
    /\ UNCHANGED cvars
    /\ UNCHANGED gvars
    /\ UNCHANGED avars
    /\ UNCHANGED lvars
    /\ UNCHANGED tvars
    /\ UNCHANGED pvars

\* main.batch_predict_ksat up to its first await: every item is validated as a
\* PredictionRequest (422), then 503 unless the predictor is ready, then 400 for more
\* than 100 coordinates; an empty list is answered at once, else the first item starts
\* (were the model not ready there, every predict would raise at once and be recorded)
ReceiveBatchPredictKsat ==
    /\ endpoint = "none"
    /\ startup # "failed"
    /\ endpoint' = "batch-predict-ksat"
    /\ \E coordinates \in BatchInputs :
          /\ request' = [coordinates |-> coordinates, years |-> 0,
                         composition |-> NoRequest.composition]
          /\ IF \E i \in 1..Len(coordinates) : ~prediction_request_valid(coordinates[i])
             THEN /\ http_status' = 422
                  /\ pc' = "done"
                  /\ failed_predictions' = <<>>
                  /\ payload' = payload
             ELSE IF readiness_status(predictor_ready) # 0
             THEN /\ http_status' = readiness_status(predictor_ready)
                  /\ pc' = "done"
                  /\ failed_predictions' = <<>>
                  /\ payload' = payload
             ELSE IF batch_length_status(Len(coordinates)) # 0
             THEN /\ http_status' = batch_length_status(Len(coordinates))
                  /\ pc' = "done"
                  /\ failed_predictions' = <<>>
                  /\ payload' = payload
             ELSE IF coordinates = <<>>
             THEN /\ http_status' = 200
                  /\ pc' = "done"
                  /\ failed_predictions' = <<>>
                  /\ payload' = [predictions |-> <<>>, failed_predictions |-> <<>>,
                                 summary |-> batch_summary(coordinates, <<>>, <<>>)]
             ELSE IF ~is_model_ready
             THEN /\ http_status' = 200
                  /\ pc' = "done"
                  /\ failed_predictions' =
                        [i \in 1..Len(coordinates) |->
                            batch_failure(i - 1, coordinates[i],
                                          "Model is not ready for prediction")]
                  /\ payload' = [predictions |-> <<>>,
                                 failed_predictions |-> failed_predictions',
                                 summary |-> batch_summary(coordinates, <<>>,
                                                           failed_predictions')]
             ELSE /\ http_status' = 0
                  /\ pc' = "fetch"
                  /\ failed_predictions' = <<>>
                  /\ payload' = payload
    /\ soil_results' = <<>>
    /\ predictions' = <<>>
    /\ UNCHANGED <<startup, model, is_model_ready, upstream, soil_data, raw_prediction,
                   rainfall_calls, raised>>
    /\ UNCHANGED cvars
    /\ UNCHANGED gvars
    /\ UNCHANGED avars
    /\ UNCHANGED lvars
    /\ UNCHANGED tvars
    /\ UNCHANGED pvars

\* main.get_soil_data up to its first await: utils.get_soil_properties starts with the
\* latitude and longitude as they came (any float)
ReceiveSoilData ==
    /\ endpoint = "none"
    /\ startup # "failed"
    /\ endpoint' = "soil-data"
    /\ \E coord \in CoordinateInputs : request' = CoordinateRequest(coord)
    /\ pc' = "fetch"
    /\ soil_results' = <<>>
    /\ UNCHANGED <<startup, model, is_model_ready, upstream, soil_data, raw_prediction,
                   payload, http_status>>
    /\ UNCHANGED bvars
    /\ UNCHANGED cvars
    /\ UNCHANGED gvars
    /\ UNCHANGED avars
    /\ UNCHANGED lvars
    /\ UNCHANGED tvars
    /\ UNCHANGED pvars

\* SoilPredictor.get_soil_properties: the GET of the next property answers (the items
\* of an accepted batch are followed for lists of up to MaxBatchItems coordinates)
PredictorFetch ==
    /\ endpoint \in {"predict-ksat", "predict", "batch-predict-ksat"}
    /\ pc = "fetch"
    /\ endpoint = "batch-predict-ksat" => Len(request.coordinates) <= MaxBatchItems
    /\ \E resp \in Responses :
          /\ upstream' = Append(upstream, resp)
          /\ soil_results' =
                predictor_fetch_step(soil_results, properties_to_query[Len(upstream) + 1], resp)
          /\ pc' = IF resp.kind = "raise" \/ Len(upstream) + 1 = Len(properties_to_query)
                   THEN "predict"
                   ELSE "fetch"
    /\ UNCHANGED <<startup, model, is_model_ready, endpoint, soil_data, raw_prediction,
                   payload, http_status, request>>
    /\ UNCHANGED bvars
    /\ UNCHANGED cvars
    /\ UNCHANGED gvars
    /\ UNCHANGED avars
    /\ UNCHANGED lvars
    /\ UNCHANGED tvars
    /\ UNCHANGED pvars

\* utils.get_soil_properties: the GET of the next property answers; after the last one
\* main.get_soil_data returns the dict
UtilsFetch ==
    /\ endpoint = "soil-data"
    /\ pc = "fetch"
    /\ \E resp \in Responses :
          LET results == utils_fetch_step(soil_results,
                                          properties_to_query[Len(upstream) + 1], resp)
              returned == resp.kind = "raise"
                          \/ Len(upstream) + 1 = Len(properties_to_query)
          IN  /\ upstream' = Append(upstream, resp)
              /\ soil_results' = results
              /\ pc' = IF returned THEN "done" ELSE "fetch"
              /\ payload' = IF returned THEN results ELSE payload
              /\ http_status' = IF returned THEN 200 ELSE http_status
    /\ UNCHANGED <<startup, model, is_model_ready, endpoint, soil_data, raw_prediction,
                   request>>
    /\ UNCHANGED bvars
    /\ UNCHANGED cvars
    /\ UNCHANGED gvars
    /\ UNCHANGED avars
    /\ UNCHANGED lvars
    /\ UNCHANGED tvars
    /\ UNCHANGED pvars

\* SoilPredictor.predict after get_soil_properties returned: convert, call the regressor,
\* clamp, analyse; main.predict_ksat answers 200 with the result, or 500 if it raised;
\* a direct caller gets the result or the exception
Predict ==
    /\ endpoint \in {"predict-ksat", "predict"}
    /\ pc = "predict"
    /\ soil_data' = convert_soilgrids_data(soil_results)
    /\ \/ \E y \in RegressorOutputs :
             /\ raw_prediction' = [status |-> "ok", value |-> y]
             /\ payload' = predict_ksat_response(
                              predict_result(convert_soilgrids_data(soil_results), y))
             /\ http_status' = IF endpoint = "predict-ksat" THEN 200 ELSE http_status
             /\ raised' = raised
       \/ /\ raw_prediction' = [status |-> "raise", value |-> 0]
          /\ payload' = payload
          /\ http_status' = IF endpoint = "predict-ksat" THEN 500 ELSE http_status
          /\ raised' = IF endpoint = "predict" THEN "Exception" ELSE raised
    /\ pc' = "done"
    /\ UNCHANGED <<startup, model, is_model_ready, endpoint, upstream, soil_results,
                   request, predictions, failed_predictions, rainfall_calls>>
    /\ UNCHANGED cvars
    /\ UNCHANGED gvars
    /\ UNCHANGED avars
    /\ UNCHANGED lvars
    /\ UNCHANGED tvars
    /\ UNCHANGED pvars

\* main.batch_predict_ksat, one turn of its loop after get_soil_properties returned for
\* item i: predict converts and calls the regressor; the result is appended to
\* predictions, an exception to failed_predictions; after the last item the handler
\* answers 200 with both lists and the summary.  The locals of predict end with it.
BatchPredictItem ==
    /\ endpoint = "batch-predict-ksat"
    /\ pc = "predict"
    /\ LET coord == request.coordinates[batch_index + 1]
           data == convert_soilgrids_data(soil_results)
       IN  \E item_failed \in BOOLEAN :
              /\ IF item_failed
                 THEN /\ failed_predictions' =
                            Append(failed_predictions,
                                   batch_failure(batch_index, coord, "model.predict raised"))
                      /\ predictions' = predictions
                 ELSE /\ \E result \in {predict_result(data, y) : y \in RegressorOutputs} :
                            predictions' =
                                Append(predictions,
                                       batch_prediction(batch_index, coord, result))
                      /\ failed_predictions' = failed_predictions
              /\ pc' = batch_next_pc(request.coordinates, predictions',
                                     failed_predictions', item_failed)
              /\ http_status' = IF pc' = "done" THEN 200 ELSE http_status
              /\ payload' = IF pc' = "done"
                            THEN [predictions |-> predictions',
                                  failed_predictions |-> failed_predictions',
                                  summary |-> batch_summary(request.coordinates,
                                                            predictions',
                                                            failed_predictions')]
                            ELSE payload
    /\ upstream' = <<>>
    /\ soil_results' = <<>>
    /\ soil_data' = NoSoilData
    /\ raw_prediction' = NoPrediction
    /\ UNCHANGED <<startup, model, is_model_ready, endpoint, request, rainfall_calls,
                   raised>>
    /\ UNCHANGED cvars
    /\ UNCHANGED gvars
    /\ UNCHANGED avars
    /\ UNCHANGED lvars
    /\ UNCHANGED tvars
    /\ UNCHANGED pvars

\* main.get_rainfall_data / get_average_annual_rainfall / analyze_rainfall_pattern up to
\* the first await: 503 without the service, 400 for a bad latitude, longitude or years
ReceiveRainfall ==
    /\ endpoint = "none"
    /\ startup # "failed"
    /\ \E name \in RainfallEndpoints, coord \in CoordinateInputs, years \in YearsInputs :
          /\ endpoint' = name
          /\ request' = [coordinates |-> <<coord>>, years |-> years,
                         composition |-> NoRequest.composition]
          /\ http_status' = rainfall_request_status(startup = "done", coord, years)
          /\ pc' = IF rainfall_request_status(startup = "done", coord, years) = 0
                   THEN "rainfall"
                   ELSE "done"
    /\ UNCHANGED <<startup, model, is_model_ready, upstream, soil_results, soil_data,
                   raw_prediction, payload>>
    /\ UNCHANGED bvars
    /\ UNCHANGED cvars
    /\ UNCHANGED gvars
    /\ UNCHANGED avars
    /\ UNCHANGED lvars
    /\ UNCHANGED tvars
    /\ UNCHANGED pvars

\* RainfallService.get_rainfall_data: the precipitation provider answers with a daily
\* series, or the call raises and the handler answers 500
RainfallAnswer ==
    /\ endpoint \in RainfallEndpoints
    /\ pc = "rainfall"
    /\ rainfall_calls' = rainfall_calls + 1
    /\ \/ \E total \in RainfallTotals :
             /\ payload' = rainfall_response(endpoint, request.coordinates[1],
                                             request.years, total)
             /\ http_status' = 200
       \/ /\ payload' = payload
          /\ http_status' = 500
    /\ pc' = "done"
    /\ UNCHANGED <<startup, model, is_model_ready, endpoint, upstream, soil_results,
                   soil_data, raw_prediction, request, predictions, failed_predictions,
                   raised>>
    /\ UNCHANGED cvars
    /\ UNCHANGED gvars
    /\ UNCHANGED avars
    /\ UNCHANGED lvars
    /\ UNCHANGED tvars
    /\ UNCHANGED pvars

\* main.classify_texture: 400 for a percentage outside [0, 100] or a total further than
\* 1 from 100, else the classification
ClassifyTexture ==
    /\ endpoint = "none"
    /\ startup # "failed"
    /\ endpoint' = "texture-classification"
    /\ \E c \in CompositionInputs :
          /\ request' = [coordinates |-> <<>>, years |-> 0, composition |-> c]
          /\ http_status' = classify_texture_status(c)
          /\ payload' = IF classify_texture_status(c) = 200
                        THEN classify_soil_texture(c.sand, c.silt, c.clay)
                        ELSE payload
    /\ pc' = "done"
    /\ UNCHANGED <<startup, model, is_model_ready, upstream, soil_results, soil_data,
                   raw_prediction>>
    /\ UNCHANGED bvars
    /\ UNCHANGED cvars
    /\ UNCHANGED gvars
    /\ UNCHANGED avars
    /\ UNCHANGED lvars
    /\ UNCHANGED tvars
    /\ UNCHANGED pvars

NextServe ==
    \/ StartupEvent
    \/ ReceivePredictKsat
    \/ CallPredict
    \/ ReceiveBatchPredictKsat
    \/ ReceiveSoilData
    \/ PredictorFetch
    \/ UtilsFetch
    \/ Predict
    \/ BatchPredictItem
    \/ ReceiveRainfall
    \/ RainfallAnswer
    \/ ClassifyTexture

SpecServe == InitServe /\ [][NextServe]_vars


(***************************************************************************)
(* Synthetic data generator (KsatModelTrainer._generate_synthetic_data)    *)
(***************************************************************************)

\* number of levels one draw of the random generator takes
DrawLevels == 3

\* length of the generator's stream before it repeats
TapeLen == 5

\* largest n_samples a run is called with
MaxSamples == 2

\* number of generator runs in one process
MaxRuns == 2

\* largest magnitude, in standard deviations, of a draw of the normal distribution
ZMax == 8

\* numpy.clip(x, lo, hi)
np_clip(x, lo, hi) == PyMin(PyMax(x, lo), hi)

\* the k-th draw (k = 0, 1, ...) of a call that starts with the global generator at pos
Draw(tape, pos, k) == tape[((pos + k) % Len(tape)) + 1]

\* np.random.beta(a, b) as a proportion in [0, 1] times its factor (60 for clay, 85 for sand)
beta_scaled(u, factor) == (factor * Scale * u) \div (DrawLevels - 1)

\* np.random.lognormal(0.5, 0.8): a positive value, here up to 20
lognormal_draw(u) == (20 * Scale * u) \div (DrawLevels - 1) + 1

\* a standard normal draw in -ZMax..ZMax; np.random.normal(0, scale) is scale times it
standard_normal(u) == (2 * ZMax * u) \div (DrawLevels - 1) - ZMax

\* the composition of one sample: clay and sand drawn, silt the complement, all three
\* divided by their total and multiplied by 100
synthetic_composition(u_clay, u_sand) ==
    LET clay0 == beta_scaled(u_clay, 60)
        sand0 == beta_scaled(u_sand, 85)
        silt0 == 100 * Scale - clay0 - sand0
        total == clay0 + sand0 + silt0
    IN  [clay |-> (clay0 * 100) \div (total \div Scale),
         silt |-> (silt0 * 100) \div (total \div Scale),
         sand |-> (sand0 * 100) \div (total \div Scale)]

\* np.clip(np.random.lognormal(0.5, 0.8), 0.1, 15.0)
synthetic_organic_carbon(u) == np_clip(lognormal_draw(u), Scale \div 10, 15 * Scale)

\* the texture-specific factor of base_ksat, in tenths (no factor: 10)
texture_adjustment(texture_name) ==
    IF texture_name \in {"SAND", "LOAMY SAND"} THEN 18
    ELSE IF texture_name \in {"SANDY LOAM", "LOAM"} THEN 12
    ELSE IF texture_name \in {"CLAY", "SILTY CLAY"} THEN 3
    ELSE 10

\* base_ksat of one sample, texture adjustment included
synthetic_base_ksat(sand, clay, organic_carbon, texture_name) ==
    LET sand_effect == (sand * 25) \div 10
        clay_effect == clay * (0 - 2)
        oc_effect == 0 - ((organic_carbon * 5) \div 10)
        base_ksat == 100 * Scale + sand_effect + clay_effect + oc_effect
    IN  (base_ksat * texture_adjustment(texture_name)) \div 10

\* the scale argument of np.random.normal(0, base_ksat * 0.15)
noise_scale(base_ksat) == (base_ksat * 15) \div 100

\* the value without the final clip of the series
synthetic_ksat_unclipped(base_ksat, z) ==
    PyMax(Scale \div 2, base_ksat + z * noise_scale(base_ksat))

\* ksat[i] = max(0.5, base_ksat + noise), then np.clip(ksat, 0.5, 350)
synthetic_ksat(base_ksat, z) ==
    np_clip(PyMax(Scale \div 2, base_ksat + z * noise_scale(base_ksat)),
            Scale \div 2, 350 * Scale)

\* _generate_synthetic_data(n_samples) with the global generator at (tape, pos):
\* [status, rows, consumed].  np.random.normal raises ValueError when its scale is
\* negative, which ends the call without a DataFrame.
generate_synthetic_data(tape, pos, n_samples) ==
    LET comp == [i \in 1..n_samples |->
                    synthetic_composition(Draw(tape, pos, i - 1),
                                          Draw(tape, pos, n_samples + i - 1))]
        texture == [i \in 1..n_samples |->
                    trainer_classify_soil_texture(comp[i].sand, comp[i].silt, comp[i].clay)]
        oc == [i \in 1..n_samples |->
                    synthetic_organic_carbon(Draw(tape, pos, 2 * n_samples + i - 1))]
        base == [i \in 1..n_samples |->
                    synthetic_base_ksat(comp[i].sand, comp[i].clay, oc[i], texture[i][1])]
        bad == {i \in 1..n_samples : noise_scale(base[i]) < 0}
    IN  IF bad # {}
        THEN [status |-> "ValueError",
              rows |-> <<>>,
              consumed |-> 3 * n_samples
                           + (CHOOSE i \in bad : \A j \in bad : i <= j) - 1]
        ELSE [status |-> "ok",
              rows |-> [i \in 1..n_samples |->
                          [Clay |-> comp[i].clay,
                           Silt |-> comp[i].silt,
                           Sand |-> comp[i].sand,
                           TextureEncoded |-> texture[i][2],
                           Texture |-> texture[i][1],
                           OC |-> oc[i],
                           Ksat |-> synthetic_ksat(
                                       base[i],
                                       standard_normal(
                                           Draw(tape, pos, 3 * n_samples + i - 1)))]],
              consumed |-> 4 * n_samples]

\* the process starts with the global numpy generator seeded from OS entropy
InitGen ==
    /\ rng_tape \in [1..TapeLen -> 0..(DrawLevels - 1)]
    /\ rng_pos = 0
    /\ runs = <<>>
    /\ ClassifyIdle
    /\ ServeIdle
    /\ AnnotateIdle
    /\ LookupIdle
    /\ TrainIdle
    /\ LifeIdle

\* one call of KsatModelTrainer._generate_synthetic_data: it draws from the global
\* generator where the previous call left it, and never seeds it
GenerateSyntheticData ==
    /\ Len(runs) < MaxRuns
    /\ \E n_samples \in 1..MaxSamples :
          LET out == generate_synthetic_data(rng_tape, rng_pos, n_samples)
          IN  /\ runs' = Append(runs, [n_samples |-> n_samples,
                                       status |-> out.status,
                                       rows |-> out.rows])
              /\ rng_pos' = (rng_pos + out.consumed) % Len(rng_tape)
    /\ UNCHANGED rng_tape
    /\ UNCHANGED cvars
    /\ UNCHANGED svars
    /\ UNCHANGED avars
    /\ UNCHANGED lvars
    /\ UNCHANGED tvars
    /\ UNCHANGED pvars

NextGen == GenerateSyntheticData

SpecGen == InitGen /\ [][NextGen]_vars


(***************************************************************************)
(* Annotators (utils.format_soil_analysis, utils.calculate_confidence_score *)
(* and the annotations of SoilPredictor.predict) on a pair of Ksat values   *)
(***************************************************************************)

\* the Ksat values (whole units) the annotators compare ksat with
KsatThresholds == {5, 10, 20, 50, 60, 100, 150, 200, 300}

\* values at and around every threshold, below zero, zero and above the served band
KsatGrid ==
    {0 - Scale, 0, 400 * Scale} \cup
    {t * Scale + d : t \in KsatThresholds, d \in (0 - GridRadius)..GridRadius}

\* soil dicts for calculate_confidence_score: keys may be missing, and the totals sit at
\* and around 95 and 105
SoilDictTotals == {95 * Scale - 1, 95 * Scale, 105 * Scale, 105 * Scale + 1}

SoilDicts ==
    {<<>>}
        \cup {<<<<"sand", t>>>> : t \in SoilDictTotals}
        \cup {<<<<"silt", 0>>, <<"clay", t>>>> : t \in SoilDictTotals}
        \cup {<<<<"sand", 40 * Scale>>, <<"silt", t - 65 * Scale>>, <<"clay", 25 * Scale>>>> :
                 t \in SoilDictTotals}

\* utils.get_ksat_category
get_ksat_category(ksat) ==
    IF ksat < 5 * Scale THEN "Very Slow"
    ELSE IF ksat < 20 * Scale THEN "Slow"
    ELSE IF ksat < 60 * Scale THEN "Moderate"
    ELSE IF ksat < 150 * Scale THEN "Fast"
    ELSE "Very Fast"

\* format_soil_analysis with the labels of its two middle steps exchanged
format_soil_analysis_swapped_labels(ksat, texture_class) ==
    LET tier == IF ksat > 100 * Scale
                THEN <<"High", "Excellent for rainwater infiltration",
                       "Ideal for recharge pits and infiltration basins">>
                ELSE IF ksat > 50 * Scale
                THEN <<"Low", "Fair for rainwater infiltration",
                       "May require enhanced infiltration methods">>
                ELSE IF ksat > 20 * Scale
                THEN <<"Moderate", "Good for rainwater infiltration",
                       "Suitable for most infiltration structures">>
                ELSE <<"Very Low", "Poor for rainwater infiltration",
                       "Consider alternative drainage solutions">>
    IN  [infiltration_rate |-> tier[1],
         suitability |-> tier[2],
         recommendation |-> tier[3],
         texture_class |-> texture_class,
         ksat_category |-> get_ksat_category(ksat)]

\* utils.format_soil_analysis
format_soil_analysis(ksat, texture_class) ==
    LET tier == IF ksat > 100 * Scale
                THEN <<"High", "Excellent for rainwater infiltration",
                       "Ideal for recharge pits and infiltration basins">>
                ELSE IF ksat > 50 * Scale
                THEN <<"Moderate", "Good for rainwater infiltration",
                       "Suitable for most infiltration structures">>
                ELSE IF ksat > 20 * Scale
                THEN <<"Low", "Fair for rainwater infiltration",
                       "May require enhanced infiltration methods">>
                ELSE <<"Very Low", "Poor for rainwater infiltration",
                       "Consider alternative drainage solutions">>
    IN  [infiltration_rate |-> tier[1],
         suitability |-> tier[2],
         recommendation |-> tier[3],
         texture_class |-> texture_class,
         ksat_category |-> get_ksat_category(ksat)]

\* Python floats are IEEE-754 doubles.  The doubles calculate_confidence_score works with
\* lie next to a decimal n/100 with 0.03125 <= |n/100| < 1, and every such double is a
\* multiple of 2^-57: a double is kept as [n, e], standing for n/100 + e / (100 * 2^57),
\* with e an integer.
RECURSIVE PowMod(_, _, _)
PowMod(b, k, m) ==
    IF k = 0 THEN 1 % m
    ELSE IF k % 2 = 0
    THEN LET half == PowMod(b, k \div 2, m) IN (half * half) % m
    ELSE (b * PowMod(b, k - 1, m)) % m

\* the spacing of the doubles around n/100, in units of 1 / (100 * 2^57): 2^-53 in
\* [0.5, 1), halving with every binade below
double_ulp(n) ==
    IF Abs(n) >= 50 THEN 1600
    ELSE IF Abs(n) >= 25 THEN 800
    ELSE IF 2 * Abs(n) >= 25 THEN 400
    ELSE IF 4 * Abs(n) >= 25 THEN 200
    ELSE 100

\* round-to-nearest, ties-to-even, of the exact value n/100 + e / (100 * 2^57)
double_round(n, e) ==
    LET G == double_ulp(n)
        x == (n * PowMod(2, 57, 2 * G) + e) % (2 * G)
        r == x % G
        down == 2 * r < G \/ (2 * r = G /\ x < G)
    IN  [n |-> n, e |-> IF down THEN e - r ELSE e + G - r]

\* the double a decimal literal n/100 denotes
double_of(n) == double_round(n, 0)

\* unary minus is exact
double_neg(a) == [n |-> 0 - a.n, e |-> 0 - a.e]

\* float addition: the exact sum, rounded once
double_add(a, b) == double_round(a.n + b.n, a.e + b.e)

double_lt(a, b) == a.n < b.n \/ (a.n = b.n /\ a.e < b.e)

\* Python min and max return their first argument unless the second is strictly beyond it
double_min(a, b) == IF double_lt(b, a) THEN b ELSE a
double_max(a, b) == IF double_lt(a, b) THEN b ELSE a

\* calculate_confidence_score with a composition band that leaves out its two ends
confidence_unclamped_strict_band(ksat, soil_data_dict) ==
    LET base_confidence == double_of(80)
        range_adjustment ==
            IF 10 * Scale <= ksat /\ ksat <= 150 * Scale THEN double_of(10)
            ELSE IF 5 * Scale <= ksat /\ ksat <= 200 * Scale THEN double_of(5)
            ELSE double_neg(double_of(10))
        total == DictGet(soil_data_dict, "sand", 0) + DictGet(soil_data_dict, "silt", 0)
                     + DictGet(soil_data_dict, "clay", 0)
        composition_adjustment ==
            IF 95 * Scale < total /\ total < 105 * Scale
            THEN double_of(5)
            ELSE double_neg(double_of(5))
    IN  double_add(double_add(base_confidence, range_adjustment), composition_adjustment)

\* utils.calculate_confidence_score up to its last line: the sum, evaluated left to right;
\* soil_data is a dict kept as a sequence of pairs
confidence_unclamped(ksat, soil_data_dict) ==
    LET base_confidence == double_of(80)
        range_adjustment ==
            IF 10 * Scale <= ksat /\ ksat <= 150 * Scale THEN double_of(10)
            ELSE IF 5 * Scale <= ksat /\ ksat <= 200 * Scale THEN double_of(5)
            ELSE double_neg(double_of(10))
        total == DictGet(soil_data_dict, "sand", 0) + DictGet(soil_data_dict, "silt", 0)
                     + DictGet(soil_data_dict, "clay", 0)
        composition_adjustment ==
            IF 95 * Scale <= total /\ total <= 105 * Scale
            THEN double_of(5)
            ELSE double_neg(double_of(5))
    IN  double_add(double_add(base_confidence, range_adjustment), composition_adjustment)

\* the last line of utils.calculate_confidence_score
confidence_clamp(confidence) ==
    double_max(double_of(50), double_min(double_of(95), confidence))

\* utils.calculate_confidence_score, to the nearest fixed-point value
calculate_confidence_score(ksat, soil_data_dict) ==
    confidence_clamp(confidence_unclamped(ksat, soil_data_dict)).n * (Scale \div 100)

InitAnnotate ==
    /\ ksat_values \in {pair \in KsatGrid \X KsatGrid : pair[1] <= pair[2]}
    /\ soil_dict \in SoilDicts
    /\ format_out = <<>>
    /\ analyze_out = <<>>
    /\ confidence_out = <<>>
    /\ ClassifyIdle
    /\ ServeIdle
    /\ GenIdle
    /\ LookupIdle
    /\ TrainIdle
    /\ LifeIdle

\* utils.format_soil_analysis on both values
FormatSoilAnalysis ==
    /\ format_out = <<>>
    /\ format_out' = <<format_soil_analysis(ksat_values[1], "LOAM"),
                       format_soil_analysis(ksat_values[2], "LOAM")>>
    /\ UNCHANGED <<ksat_values, soil_dict, analyze_out, confidence_out>>
    /\ UNCHANGED <<cvars, svars, gvars, lvars>>
    /\ UNCHANGED tvars
    /\ UNCHANGED pvars

\* SoilPredictor._analyze_soil on both values, for the SoilData of the default answers
AnalyzeSoil ==
    /\ analyze_out = <<>>
    /\ analyze_out' =
          <<analyze_soil(ksat_values[1], convert_soilgrids_data(default_soil_results)),
            analyze_soil(ksat_values[2], convert_soilgrids_data(default_soil_results))>>
    /\ UNCHANGED <<ksat_values, soil_dict, format_out, confidence_out>>
    /\ UNCHANGED <<cvars, svars, gvars, lvars>>
    /\ UNCHANGED tvars
    /\ UNCHANGED pvars

\* utils.calculate_confidence_score on the larger value and the dict, and the confidence
\* SoilPredictor.predict computes when the regressor returns that value (clamped first)
ScoreConfidence ==
    /\ confidence_out = <<>>
    /\ confidence_out' = <<calculate_confidence_score(ksat_values[2], soil_dict),
                           predict_result(convert_soilgrids_data(default_soil_results),
                                          ksat_values[2]).confidence,
                           [unclamped |-> confidence_unclamped(ksat_values[2], soil_dict),
                            returned |-> confidence_clamp(
                                             confidence_unclamped(ksat_values[2], soil_dict))]>>
    /\ UNCHANGED <<ksat_values, soil_dict, format_out, analyze_out>>
    /\ UNCHANGED <<cvars, svars, gvars, lvars>>
    /\ UNCHANGED tvars
    /\ UNCHANGED pvars

NextAnnotate ==
    \/ FormatSoilAnalysis
    \/ AnalyzeSoil
    \/ ScoreConfidence

SpecAnnotate == InitAnnotate /\ [][NextAnnotate]_vars

(***************************************************************************)
(* Lookups: GroundwaterService.analyze_location_risk on a loaded table and  *)
(* RainfallService._categorize_rainfall                                     *)
(***************************************************************************)

\* str.lower() on the names the tables and queries use
LowerTable ==
    ("Delhi" :> "delhi") @@ ("delhi" :> "delhi") @@ ("Goa" :> "goa") @@ ("Punjab" :> "punjab")
        @@ ("North Delhi" :> "north delhi") @@ ("NORTH DELHI" :> "north delhi")
        @@ ("Empty District" :> "empty district") @@ ("South Delhi" :> "south delhi")
        @@ ("Narela" :> "narela") @@ ("narela" :> "narela") @@ ("Alipur" :> "alipur")
        @@ ("Rohini" :> "rohini")

Lower(name) == IF name \in DOMAIN LowerTable THEN LowerTable[name] ELSE name

\* GroundwaterService._find_key_insensitive on a dict kept as a sequence of <<key, value>>;
\* None is <<>>, which the callers cannot tell from an empty dict (both are falsy)
find_key_insensitive(data, key) ==
    IF \E i \in 1..Len(data) : Lower(data[i][1]) = Lower(key)
    THEN data[CHOOSE i \in 1..Len(data) :
                /\ Lower(data[i][1]) = Lower(key)
                /\ \A j \in 1..(i - 1) : Lower(data[j][1]) # Lower(key)][2]
    ELSE <<>>

\* GroundwaterService.get_location_data: <<>> for None, else <<GroundwaterData>>
get_location_data(data, state, district, location) ==
    LET state_data == find_key_insensitive(data, state)
        district_data == find_key_insensitive(state_data, district)
        location_data == find_key_insensitive(district_data, location)
    IN  IF state_data = <<>> THEN <<>>
        ELSE IF district_data = <<>> THEN <<>>
        ELSE IF location_data = <<>> THEN <<>>
        ELSE <<[annual_replenishable_gw |-> DictGet(location_data, "Annual_Replenishable_GW", 0),
                net_availability |-> DictGet(location_data, "Net_Availability", 0),
                total_draft |-> DictGet(location_data, "Total_Draft", 0),
                stage_percent |-> DictGet(location_data, "Stage_Percent", 0),
                category |-> DictGet(location_data, "Category", "Unknown"),
                location |-> location,
                district |-> district,
                state |-> state]>>

\* GroundwaterService._get_recharge_priority
get_recharge_priority(category) ==
    DictGet(<<<<"Over-exploited", "Critical - Immediate action required">>,
              <<"Critical", "High - Action recommended">>,
              <<"Semi-critical", "Medium - Preventive measures">>,
              <<"Safe", "Low - Maintenance and monitoring">>>>,
            category, "Unknown")

\* GroundwaterService._get_recharge_notes: the sentence chosen, and the number it prints
get_recharge_notes(category, deficit_surplus) ==
    IF category = "Over-exploited"
    THEN [text |-> "Area is over-exploited with a deficit", units |-> Abs(deficit_surplus)]
    ELSE IF category = "Critical"
    THEN [text |-> "Area is approaching critical stage", units |-> 0]
    ELSE IF category = "Semi-critical"
    THEN [text |-> "Area shows signs of stress", units |-> 0]
    ELSE IF category = "Safe"
    THEN IF deficit_surplus > 0
         THEN [text |-> "Area has surplus", units |-> deficit_surplus]
         ELSE [text |-> "Area is currently safe but monitor regularly", units |-> 0]
    ELSE [text |-> "Assessment data incomplete", units |-> 0]

\* the (risk_level, risk_score, recommendation) chain of analyze_location_risk
risk_of_category(category) ==
    IF category = "Over-exploited"
    THEN <<"High", 90,
           "Critical: Immediate water conservation and recharge measures required">>
    ELSE IF category = "Critical"
    THEN <<"Moderate-High", 75,
           "Implement water conservation and explore recharge options">>
    ELSE IF category = "Semi-critical"
    THEN <<"Moderate", 60, "Monitor usage and consider preventive recharge measures">>
    ELSE IF category = "Safe"
    THEN <<"Low", 30, "Continue monitoring and maintain sustainable practices">>
    ELSE <<"Unknown", 50, "Data unavailable or incomplete">>

\* suitable of analyze_location_risk written as a test against Over-exploited
suitable_for_recharge_unless_over_exploited(category) == category # "Over-exploited"

\* suitability_for_recharge.suitable of analyze_location_risk
suitable_for_recharge(category) == category \in {"Safe", "Semi-critical", "Critical"}

\* the risk chain with the scores of Critical and Semi-critical exchanged
analyze_location_risk_swapped_scores(data, state, district, location) ==
    LET found == get_location_data(data, state, district, location)
    IN  IF found = <<>>
        THEN [status |-> "error", message |-> "Location not found"]
        ELSE LET d == found[1]
                 risk == risk_of_category(d.category)
             IN  [location |-> [state |-> d.state, district |-> d.district,
                                location |-> d.location],
                  groundwater_status |->
                      [category |-> d.category,
                       stage_percent |-> d.stage_percent,
                       annual_replenishable |-> d.annual_replenishable_gw,
                       net_availability |-> d.net_availability,
                       total_draft |-> d.total_draft,
                       deficit_surplus |-> d.net_availability - d.total_draft],
                  risk_analysis |->
                      [risk_level |-> risk[1],
                       risk_score |-> IF risk[2] = 75 THEN 60
                                      ELSE IF risk[2] = 60 THEN 75 ELSE risk[2],
                       utilization_ratio |-> d.stage_percent \div 100,
                       recommendation |-> risk[3]],
                  suitability_for_recharge |->
                      [suitable |-> suitable_for_recharge(d.category),
                       priority |-> get_recharge_priority(d.category),
                       notes |-> get_recharge_notes(d.category,
                                                    d.net_availability - d.total_draft)]]

\* GroundwaterService.analyze_location_risk
analyze_location_risk(data, state, district, location) ==
    LET found == get_location_data(data, state, district, location)
    IN  IF found = <<>>
        THEN [status |-> "error", message |-> "Location not found"]
        ELSE LET d == found[1]
                 risk == risk_of_category(d.category)
                 deficit_surplus == d.net_availability - d.total_draft
             IN  [location |-> [state |-> d.state, district |-> d.district,
                                location |-> d.location],
                  groundwater_status |->
                      [category |-> d.category,
                       stage_percent |-> d.stage_percent,
                       annual_replenishable |-> d.annual_replenishable_gw,
                       net_availability |-> d.net_availability,
                       total_draft |-> d.total_draft,
                       deficit_surplus |-> deficit_surplus],
                  risk_analysis |->
                      [risk_level |-> risk[1],
                       risk_score |-> risk[2],
                       utilization_ratio |-> d.stage_percent \div 100,
                       recommendation |-> risk[3]],
                  suitability_for_recharge |->
                      [suitable |-> suitable_for_recharge(d.category),
                       priority |-> get_recharge_priority(d.category),
                       notes |-> get_recharge_notes(d.category, deficit_surplus)]]

\* what the Category key of a location entry can hold: the four categories of the table,
\* a value outside them, JSON null (None), or no Category key at all ("<missing>")
CategoryOptions ==
    {"Safe", "Semi-critical", "Critical", "Over-exploited", "Saline", "None", "<missing>"}

\* a location entry of the JSON file (volumes in whole units, stage in percent)
LocationEntry(category, net_availability, total_draft) ==
    <<<<"Annual_Replenishable_GW", net_availability + 5>>,
      <<"Net_Availability", net_availability>>,
      <<"Total_Draft", total_draft>>,
      <<"Stage_Percent", (total_draft * 100 * Scale) \div net_availability>>>>
        \o (IF category = "<missing>" THEN <<>> ELSE <<<<"Category", category>>>>)

\* a table with one state that has a district of two locations and an empty district,
\* and a state without districts
GroundwaterTable(entry) ==
    <<<<"Delhi",
        <<<<"North Delhi", <<<<"Narela", entry>>,
                             <<"Alipur", LocationEntry("Safe", 40, 20)>>>>>>,
          <<"Empty District", <<>>>>>>>>,
      <<"Goa", <<>>>>>>

\* the tables load_data can leave in groundwater_data: {} when the file is missing or
\* unreadable, else the content of the file
GroundwaterTables ==
    {<<>>, GroundwaterTable(<<>>)}
        \cup {GroundwaterTable(LocationEntry(c, 50, draft)) :
                 c \in CategoryOptions, draft \in {30, 70}}

GroundwaterQueries ==
    [state : {"Delhi", "delhi", "Goa", "Punjab"},
     district : {"North Delhi", "NORTH DELHI", "Empty District", "South Delhi"},
     location : {"Narela", "narela", "Alipur", "Rohini"}]

\* the annual totals (whole millimetres) _categorize_rainfall compares with
RainfallThresholds == {250, 500, 1000, 2000}

RainfallGrid ==
    {0, 1200 * Scale, 3000 * Scale} \cup
    {t * Scale + d : t \in RainfallThresholds, d \in (0 - GridRadius)..GridRadius}

InitLookup ==
    /\ groundwater_data \in GroundwaterTables
    /\ gw_query \in GroundwaterQueries
    /\ gw_analysis = <<>>
    /\ annual_rainfall_mm \in RainfallGrid
    /\ rainfall_category = ""
    /\ ClassifyIdle
    /\ ServeIdle
    /\ GenIdle
    /\ AnnotateIdle
    /\ TrainIdle
    /\ LifeIdle

\* GroundwaterService.analyze_location_risk(state, district, location)
AnalyzeLocationRisk ==
    /\ gw_analysis = <<>>
    /\ gw_analysis' = <<analyze_location_risk(groundwater_data, gw_query.state,
                                              gw_query.district, gw_query.location)>>
    /\ UNCHANGED <<groundwater_data, gw_query, annual_rainfall_mm, rainfall_category>>
    /\ UNCHANGED <<cvars, svars, gvars, avars>>
    /\ UNCHANGED tvars
    /\ UNCHANGED pvars

\* RainfallService._categorize_rainfall(annual_rainfall_mm)
CategorizeRainfall ==
    /\ rainfall_category = ""
    /\ rainfall_category' = categorize_rainfall(annual_rainfall_mm)
    /\ UNCHANGED <<groundwater_data, gw_query, gw_analysis, annual_rainfall_mm>>
    /\ UNCHANGED <<cvars, svars, gvars, avars>>
    /\ UNCHANGED tvars
    /\ UNCHANGED pvars

NextLookup ==
    \/ AnalyzeLocationRisk
    \/ CategorizeRainfall

SpecLookup == InitLookup /\ [][NextLookup]_vars

(***************************************************************************)
(* KsatModelTrainer: optimize_hyperparameters, train_model, save_model and *)
(* full_training_pipeline on one trainer object.  A hyperparameter dict is *)
(* kept as [max_depth, booster]: booster is "gbtree" in the dict           *)
(* optimize_hyperparameters builds and absent ("") from the default dict.  *)
(* A regressor object is [params, fitted].                                 *)
(***************************************************************************)
MaxTrainerCalls == 3

\* the ends of trial.suggest_int("max_depth", 3, 12)
TrialDepths == {3, 12}

\* KsatModelTrainer._get_default_params
get_default_params == [max_depth |-> 8, booster |-> ""]

\* a params argument a caller passes to train_model: <<>> is None
ParamsArguments == {<<>>, <<[max_depth |-> 5, booster |-> ""]>>}

\* files a previous run left in the models directory
StaleStorage ==
    [dir |-> TRUE,
     model_file |-> <<[params |-> get_default_params, fitted |-> TRUE]>>,
     metadata_file |-> <<[hyperparameters |-> get_default_params,
                          training_stats |-> <<[n_features |-> 5]>>]>>]

\* where a call can raise: nowhere, or in one of the library or file operations it makes
FailurePoints ==
    {"none", "load", "optimize", "fit", "makedirs", "model_file", "metadata_file"}

\* the object after optimize_hyperparameters found max_depth in its best trial
optimize_hyperparameters(self, max_depth) ==
    [self EXCEPT !.best_params = <<[max_depth |-> max_depth, booster |-> "gbtree"]>>]

\* self.best_params or self._get_default_params()
best_params_or_default(self) ==
    IF self.best_params # <<>> THEN self.best_params[1] ELSE get_default_params

\* the object after train_model(X, y, params): self.model is assigned before fit runs,
\* training_stats after it
train_model(self, params, fit_raises) ==
    LET used == IF params = <<>> THEN best_params_or_default(self) ELSE params[1]
    IN  IF fit_raises
        THEN [self EXCEPT !.model = <<[params |-> used, fitted |-> FALSE]>>]
        ELSE [self EXCEPT !.model = <<[params |-> used, fitted |-> TRUE]>>,
                          !.training_stats = <<[n_features |-> 5]>>]

\* save_model: [raised, storage] for the object, the directory as it is and the file
\* operation that fails, if any
save_model(self, files, failure) ==
    IF self.model = <<>> THEN [raised |-> "ValueError", storage |-> files]
    ELSE IF failure = "makedirs" THEN [raised |-> "OSError", storage |-> files]
    ELSE IF failure = "model_file"
    THEN [raised |-> "OSError", storage |-> [files EXCEPT !.dir = TRUE]]
    ELSE IF failure = "metadata_file"
    THEN [raised |-> "OSError",
          storage |-> [files EXCEPT !.dir = TRUE, !.model_file = self.model]]
    ELSE [raised |-> "",
          storage |-> [dir |-> TRUE,
                       model_file |-> self.model,
                       metadata_file |->
                           <<[hyperparameters |-> best_params_or_default(self),
                              training_stats |-> self.training_stats]>>]]

\* full_training_pipeline(optimize=...): [self, storage, raised, save_reached,
\* train_completed]; each step runs only if the steps before it returned
full_training_pipeline(self, files, optimize, max_depth, failure) ==
    LET optimized == IF optimize THEN optimize_hyperparameters(self, max_depth) ELSE self
        trained == train_model(optimized, <<>>, failure = "fit")
        saved == save_model(trained, files, failure)
    IN  IF failure = "load" \/ (optimize /\ failure = "optimize")
        THEN [self |-> self, storage |-> files, raised |-> "Exception",
              save_reached |-> FALSE, train_completed |-> FALSE]
        ELSE IF failure = "fit"
        THEN [self |-> trained, storage |-> files, raised |-> "Exception",
              save_reached |-> FALSE, train_completed |-> FALSE]
        ELSE [self |-> trained, storage |-> saved.storage, raised |-> saved.raised,
              save_reached |-> TRUE, train_completed |-> TRUE]

InitTrain ==
    /\ trainer = NewTrainer
    /\ storage \in {EmptyStorage, StaleStorage}
    /\ last_call = NoCall
    /\ trainer_calls = 0
    /\ ClassifyIdle
    /\ ServeIdle
    /\ GenIdle
    /\ AnnotateIdle
    /\ LookupIdle
    /\ LifeIdle

\* what every call records of the state it started in
CallRecord(call, exception, save_reached, train_completed) ==
    [call |-> call, raised |-> exception,
     trained_before |-> trainer.training_stats # <<>>,
     storage_before |-> storage,
     save_reached |-> save_reached, train_completed |-> train_completed]

\* a caller runs optimize_hyperparameters: the study fails, or best_params is replaced
OptimizeHyperparameters ==
    /\ trainer_calls < MaxTrainerCalls
    /\ trainer_calls' = trainer_calls + 1
    /\ \/ /\ trainer' = trainer
          /\ last_call' = CallRecord("optimize_hyperparameters", "Exception", FALSE, FALSE)
       \/ \E max_depth \in TrialDepths :
             /\ trainer' = optimize_hyperparameters(trainer, max_depth)
             /\ last_call' = CallRecord("optimize_hyperparameters", "", FALSE, FALSE)
    /\ UNCHANGED storage
    /\ UNCHANGED <<cvars, svars, gvars, avars, lvars>>
    /\ UNCHANGED pvars

\* a caller runs train_model, with or without a params argument
TrainModel ==
    /\ trainer_calls < MaxTrainerCalls
    /\ trainer_calls' = trainer_calls + 1
    /\ \E params \in ParamsArguments, fit_raises \in BOOLEAN :
          /\ trainer' = train_model(trainer, params, fit_raises)
          /\ last_call' = CallRecord("train_model",
                                     IF fit_raises THEN "Exception" ELSE "",
                                     FALSE, ~fit_raises)
    /\ UNCHANGED storage
    /\ UNCHANGED <<cvars, svars, gvars, avars, lvars>>
    /\ UNCHANGED pvars

\* a caller runs save_model
SaveModel ==
    /\ trainer_calls < MaxTrainerCalls
    /\ trainer_calls' = trainer_calls + 1
    /\ \E failure \in {"none", "makedirs", "model_file", "metadata_file"} :
          LET out == save_model(trainer, storage, failure)
          IN  /\ storage' = out.storage
              /\ last_call' = CallRecord("save_model", out.raised, TRUE, FALSE)
    /\ UNCHANGED trainer
    /\ UNCHANGED <<cvars, svars, gvars, avars, lvars>>
    /\ UNCHANGED pvars

\* a caller runs full_training_pipeline
FullTrainingPipeline ==
    /\ trainer_calls < MaxTrainerCalls
    /\ trainer_calls' = trainer_calls + 1
    /\ \E optimize \in BOOLEAN, max_depth \in TrialDepths, failure \in FailurePoints :
          LET out == full_training_pipeline(trainer, storage, optimize, max_depth, failure)
          IN  /\ trainer' = out.self
              /\ storage' = out.storage
              /\ last_call' = CallRecord("full_training_pipeline", out.raised,
                                         out.save_reached, out.train_completed)
    /\ UNCHANGED <<cvars, svars, gvars, avars, lvars>>
    /\ UNCHANGED pvars

NextTrain ==
    \/ OptimizeHyperparameters
    \/ TrainModel
    \/ SaveModel
    \/ FullTrainingPipeline

SpecTrain == InitTrain /\ [][NextTrain]_vars

(***************************************************************************)
(* Service lifecycle: SoilPredictor.initialize against the model file,     *)
(* then predict-ksat, batch-predict-ksat, model-info and health handlers   *)
(* running as coroutines on one event loop.  A coroutine runs alone from   *)
(* one await to the next; the awaits of a prediction are the provider      *)
(* calls of get_soil_properties.                                           *)
(***************************************************************************)

\* where SoilPredictor.initialize can raise: nowhere, in pickle.load, while generating
\* the synthetic data, in fit, in os.makedirs or open, or in pickle.dump
InitializeFailures == {"none", "load", "generate", "fit", "makedirs", "dump"}

\* initialize with is_model_ready set as soon as the model is fitted, before the save
initialize_ready_before_save(file, failure) ==
    IF file # "absent"
    THEN IF failure = "load" \/ file = "partial"
         THEN [model |-> "None", is_model_ready |-> FALSE, model_file |-> file,
               loaded |-> FALSE, trained |-> FALSE, writes |-> 0, raised |-> TRUE]
         ELSE [model |-> "loaded", is_model_ready |-> TRUE, model_file |-> file,
               loaded |-> TRUE, trained |-> FALSE, writes |-> 0, raised |-> FALSE]
    ELSE IF failure = "generate"
    THEN [model |-> "None", is_model_ready |-> FALSE, model_file |-> file,
          loaded |-> FALSE, trained |-> FALSE, writes |-> 0, raised |-> TRUE]
    ELSE IF failure = "fit"
    THEN [model |-> "unfitted", is_model_ready |-> FALSE, model_file |-> file,
          loaded |-> FALSE, trained |-> FALSE, writes |-> 0, raised |-> TRUE]
    ELSE IF failure = "makedirs"
    THEN [model |-> "trained", is_model_ready |-> TRUE, model_file |-> file,
          loaded |-> FALSE, trained |-> TRUE, writes |-> 0, raised |-> TRUE]
    ELSE IF failure = "dump"
    THEN [model |-> "trained", is_model_ready |-> TRUE, model_file |-> "partial",
          loaded |-> FALSE, trained |-> TRUE, writes |-> 1, raised |-> TRUE]
    ELSE [model |-> "trained", is_model_ready |-> TRUE, model_file |-> "written",
          loaded |-> FALSE, trained |-> TRUE, writes |-> 1, raised |-> FALSE]

\* SoilPredictor.initialize and _create_and_train_model on a fresh predictor: what the
\* object and the model file are when the call returns or raises.  A failure that lies
\* on the other path does not happen; a file cut short by a failed dump cannot be loaded.
initialize(file, failure) ==
    IF file # "absent"
    THEN IF failure = "load" \/ file = "partial"
         THEN [model |-> "None", is_model_ready |-> FALSE, model_file |-> file,
               loaded |-> FALSE, trained |-> FALSE, writes |-> 0, raised |-> TRUE]
         ELSE [model |-> "loaded", is_model_ready |-> TRUE, model_file |-> file,
               loaded |-> TRUE, trained |-> FALSE, writes |-> 0, raised |-> FALSE]
    ELSE IF failure = "generate"
    THEN [model |-> "None", is_model_ready |-> FALSE, model_file |-> file,
          loaded |-> FALSE, trained |-> FALSE, writes |-> 0, raised |-> TRUE]
    ELSE IF failure = "fit"
    THEN [model |-> "unfitted", is_model_ready |-> FALSE, model_file |-> file,
          loaded |-> FALSE, trained |-> FALSE, writes |-> 0, raised |-> TRUE]
    ELSE IF failure = "makedirs"
    THEN [model |-> "trained", is_model_ready |-> FALSE, model_file |-> file,
          loaded |-> FALSE, trained |-> TRUE, writes |-> 0, raised |-> TRUE]
    ELSE IF failure = "dump"
    THEN [model |-> "trained", is_model_ready |-> FALSE, model_file |-> "partial",
          loaded |-> FALSE, trained |-> TRUE, writes |-> 1, raised |-> TRUE]
    ELSE [model |-> "trained", is_model_ready |-> TRUE, model_file |-> "written",
          loaded |-> FALSE, trained |-> TRUE, writes |-> 1, raised |-> FALSE]

\* the raw values the provider holds for a location, per property
soilgrids_mean(coord, prop) ==
    IF coord = NorthEast
    THEN (("sand" :> 800) @@ ("silt" :> 100) @@ ("clay" :> 100) @@ ("ocd" :> 20))[prop]
    ELSE (("sand" :> 200) @@ ("silt" :> 300) @@ ("clay" :> 500) @@ ("ocd" :> 40))[prop]

\* the provider calls that are let fail: the first of a location and the last
FailingProperties == {properties_to_query[1], properties_to_query[Len(properties_to_query)]}

\* what one provider call for a location can answer: its value, or the call raises
ProviderAnswers(coord, prop) ==
    {[kind |-> "ok", value |-> soilgrids_mean(coord, prop)]}
        \cup (IF prop \in FailingProperties THEN {[kind |-> "raise", value |-> 0]} ELSE {})

\* self.model.predict(features)[0]: a function of the fitted model and the feature row
\* only.  The fitted functions are not in the source; each model stands for the target
\* it was fitted to (soil_predictor.py:142 for the fallback model, the generator's base
\* value for a stored one).
model_predict(fitted, data) ==
    IF fitted = "trained"
    THEN 200 * Scale - (data.clay * 25) \div 10 + (data.sand * 8) \div 10
    ELSE 100 * Scale + (data.sand * 25) \div 10 - data.clay * 2
             - (data.organic_carbon * 5) \div 10

\* one buffer for every coroutine, as an attribute of the shared predictor would be
shared_frame(t) == 1

\* the frame that holds the locals of coroutine t: its own
frame_of(t) == t

\* SoilPredictor.get_model_info
get_model_info ==
    IF ~is_model_ready THEN [status |-> "not_ready"]
    ELSE [status |-> "ready", hyperparameters |-> best_params,
          texture_classes |-> Len(texture_encoding)]

\* the model file at startup: none, one that holds a model, or one cut short
StartupFiles == {"absent", "stored", "partial"}

InitLife ==
    /\ model_file \in StartupFiles
    /\ init_log = NoInit
    /\ texture_encoding = predictor_texture_encoding
    /\ best_params = predictor_best_params
    /\ tasks = [t \in 1..MaxRequests |-> NoTask]
    /\ frames = [t \in 1..MaxRequests |-> <<>>]
    /\ ServeIdle
    /\ ClassifyIdle
    /\ GenIdle
    /\ AnnotateIdle
    /\ LookupIdle
    /\ TrainIdle

\* the frame of the service variables the lifecycle actions never touch
LifeFrame ==
    /\ UNCHANGED <<endpoint, pc, upstream, soil_results, soil_data, raw_prediction,
                   payload, http_status, request, bvars>>
    /\ UNCHANGED <<cvars, gvars, avars, lvars, tvars>>

\* main.startup_event: SoilPredictor() and await predictor.initialize(); initialize has
\* no await that yields, so it runs to its end in one piece
Initialize ==
    /\ startup = "pending"
    /\ \E failure \in InitializeFailures :
          LET out == initialize(model_file, failure)
          IN  /\ model' = out.model
              /\ is_model_ready' = out.is_model_ready
              /\ model_file' = out.model_file
              /\ init_log' = [file_before |-> model_file, loaded |-> out.loaded,
                              trained |-> out.trained, writes |-> out.writes,
                              raised |-> out.raised]
              /\ startup' = IF out.raised THEN "failed" ELSE "done"
    /\ UNCHANGED <<texture_encoding, best_params, tasks, frames>>
    /\ LifeFrame

\* requests are served once startup has completed; slots are taken in order
CanArrive(t) ==
    /\ startup = "done"
    /\ tasks[t].pc = "idle"
    /\ \A u \in 1..(t - 1) : tasks[u].pc # "idle"

\* main.health_check: no await, answers at once
TaskHealth(t) ==
    /\ CanArrive(t)
    /\ tasks' = [tasks EXCEPT ![t] =
                    [NoTask EXCEPT !.endpoint = "health", !.pc = "done",
                        !.answer = <<[model_status |->
                                         IF is_ready THEN "loaded" ELSE "not_loaded"]>>]]
    /\ UNCHANGED <<startup, model, is_model_ready>>
    /\ UNCHANGED <<model_file, init_log, texture_encoding, best_params, frames>>
    /\ LifeFrame

\* main.get_model_info: no await, answers at once
TaskModelInfo(t) ==
    /\ CanArrive(t)
    /\ tasks' = [tasks EXCEPT ![t] =
                    [NoTask EXCEPT !.endpoint = "model-info", !.pc = "done",
                        !.answer = <<[model_info |-> get_model_info,
                                      status |-> IF is_ready THEN "ready"
                                                 ELSE "not_ready"]>>]]
    /\ UNCHANGED <<startup, model, is_model_ready>>
    /\ UNCHANGED <<model_file, init_log, texture_encoding, best_params, frames>>
    /\ LifeFrame

\* main.predict_ksat or main.batch_predict_ksat up to the first await of predict: 503
\* unless the predictor is ready, else get_soil_properties starts with soil_results = {}
receive(name, coordinates) ==
    IF readiness_status(is_ready) # 0
    THEN [NoTask EXCEPT !.endpoint = name, !.pc = "done", !.coordinates = coordinates,
                        !.answer = <<[status |-> readiness_status(is_ready)]>>]
    ELSE [NoTask EXCEPT !.endpoint = name, !.pc = "fetch", !.coordinates = coordinates,
                        !.item = 1, !.upstream = <<<<>>>>]

\* main.predict_ksat is called with the coordinates of one location
TaskReceivePredictKsat(t) ==
    /\ CanArrive(t)
    /\ \E coord \in {NorthEast, SouthWest} :
          tasks' = [tasks EXCEPT ![t] = receive("predict-ksat", <<coord>>)]
    /\ frames' = IF tasks'[t].pc = "fetch" THEN [frames EXCEPT ![frame_of(t)] = <<>>]
                 ELSE frames
    /\ UNCHANGED <<startup, model, is_model_ready>>
    /\ UNCHANGED <<model_file, init_log, texture_encoding, best_params>>
    /\ LifeFrame

\* main.batch_predict_ksat is called with a list of two locations
TaskReceiveBatchPredictKsat(t) ==
    /\ CanArrive(t)
    /\ tasks' = [tasks EXCEPT ![t] =
                    receive("batch-predict-ksat", <<NorthEast, SouthWest>>)]
    /\ frames' = IF tasks'[t].pc = "fetch" THEN [frames EXCEPT ![frame_of(t)] = <<>>]
                 ELSE frames
    /\ UNCHANGED <<startup, model, is_model_ready>>
    /\ UNCHANGED <<model_file, init_log, texture_encoding, best_params>>
    /\ LifeFrame

\* one provider call of get_soil_properties returns to the coroutine, which stores the
\* value in its soil_results, or takes the defaults when the call raised
TaskFetch(t) ==
    /\ tasks[t].pc = "fetch"
    /\ LET task == tasks[t]
           got == task.upstream[task.item]
           prop == properties_to_query[Len(got) + 1]
       IN  \E resp \in ProviderAnswers(task.coordinates[task.item], prop) :
              /\ frames' = [frames EXCEPT ![frame_of(t)] =
                               predictor_fetch_step(frames[frame_of(t)], prop, resp)]
              /\ tasks' = [tasks EXCEPT ![t] =
                              [task EXCEPT
                                  !.upstream[task.item] = Append(got, resp),
                                  !.pc = IF resp.kind = "raise"
                                            \/ Len(got) + 1 = Len(properties_to_query)
                                         THEN "predict" ELSE "fetch"]]
    /\ UNCHANGED <<startup, model, is_model_ready>>
    /\ UNCHANGED <<model_file, init_log, texture_encoding, best_params>>
    /\ LifeFrame

\* predict after get_soil_properties returned: convert, call the regressor, clamp,
\* analyse; predict_ksat answers, batch_predict_ksat appends and starts its next item
TaskPredict(t) ==
    /\ tasks[t].pc = "predict"
    /\ LET task == tasks[t]
           data == convert_soilgrids_data(frames[frame_of(t)])
           results == Append(task.results, predict_result(data, model_predict(model, data)))
           last == task.item = Len(task.coordinates)
       IN  /\ tasks' = [tasks EXCEPT ![t] =
                          IF last
                          THEN [task EXCEPT !.results = results, !.pc = "done",
                                            !.answer = <<[status |-> 200]>>]
                          ELSE [task EXCEPT !.results = results, !.pc = "fetch",
                                            !.item = task.item + 1,
                                            !.upstream = Append(task.upstream, <<>>)]]
           /\ frames' = IF last THEN frames
                        ELSE [frames EXCEPT ![frame_of(t)] = <<>>]
    /\ UNCHANGED <<startup, model, is_model_ready>>
    /\ UNCHANGED <<model_file, init_log, texture_encoding, best_params>>
    /\ LifeFrame

NextLife ==
    \/ Initialize
    \/ \E t \in 1..MaxRequests : TaskHealth(t)
    \/ \E t \in 1..MaxRequests : TaskModelInfo(t)
    \/ \E t \in 1..MaxRequests : TaskReceivePredictKsat(t)
    \/ \E t \in 1..MaxRequests : TaskReceiveBatchPredictKsat(t)
    \/ \E t \in 1..MaxRequests : TaskFetch(t)
    \/ \E t \in 1..MaxRequests : TaskPredict(t)

SpecLife == InitLife /\ [][NextLife]_vars

(***************************************************************************)
(* Claims about the classifier (checked under SpecClassify)                *)
(***************************************************************************)

\* every label a classifier of the repository can produce
TextureLabels ==
    {"SAND", "LOAMY SAND", "SANDY LOAM", "SILT", "SILT LOAM", "SILTY LOAM", "CLAY LOAM",
     "LOAM", "SANDY CLAY", "SILTY CLAY", "SANDY CLAY LOAM", "SILTY CLAY LOAM", "Unknown"}

\* C1: for every triple the training-path classifier and the serving-path classifier
\* return the same label and the same code.
C1_TrainerEqualsPredictor ==
    (trainer_out # <<>> /\ predictor_out # <<>>) => trainer_out = predictor_out

\* C2: the classifier is total: for every triple in [0,100]^3 (not required to sum to
\* 100) utils.classify_soil_texture and SoilPredictor._classify_soil_texture return a
\* label together with an integer code in [-1, 12].
C2_ClassifierTotal ==
    /\ utils_out # <<>> =>
          /\ utils_out[1] \in TextureLabels
          /\ utils_out[2] >= -1
          /\ utils_out[2] <= 12
    /\ predictor_out # <<>> =>
          /\ predictor_out[1] \in TextureLabels
          /\ predictor_out[2] >= -1
          /\ predictor_out[2] <= 12

\* C2 witness: a triple that does not sum to 100 and matches no rule, and a classifier
\* that fell back on the code of "Unknown" for a label its table lacks
C2_Witness ==
    /\ utils_out # <<>>
    /\ predictor_out # <<>>
    /\ triple.sand + triple.silt + triple.clay # 100 * Scale
    /\ \/ utils_out = <<"Unknown", -1>>
       \/ utils_out = <<"SILT", -1>>

\* C3: whenever silt + clay < 20, whatever the sand value, the classifier returns
\* SAND with code 4 (utils, serving path and training path alike).
C3_SandFirst ==
    (triple.silt + triple.clay < 20 * Scale) =>
        /\ utils_out # <<>> => utils_out = <<"SAND", 4>>
        /\ predictor_out # <<>> => predictor_out = <<"SAND", 4>>
        /\ trainer_out # <<>> => trainer_out = <<"SAND", 4>>

\* C3 witness: silt + clay just below 20 with a sand value that a later rule
\* (LOAMY SAND) would also accept, classified by all three
C3_Witness ==
    /\ triple.silt + triple.clay < 20 * Scale
    /\ triple.silt + triple.clay >= 20 * Scale - 2 * GridRadius
    /\ triple.sand > 52 * Scale
    /\ utils_out = <<"SAND", 4>>
    /\ predictor_out = <<"SAND", 4>>
    /\ trainer_out = <<"SAND", 4>>

\* C4: on the serving path, decoding the code the table gives a returned label yields
\* that label again.
C4_RoundTrip ==
    (predictor_out # <<>> /\ decoded # "") => decoded = predictor_out[1]

(***************************************************************************)
(* Claims about the serving path (checked under SpecServe)                 *)
(***************************************************************************)

\* SoilPredictor.get_soil_properties has returned to SoilPredictor.predict
PredictorFetched ==
    endpoint = "predict-ksat" /\ pc \in {"predict", "done"} /\ http_status \notin {422, 503}

\* utils.get_soil_properties has returned to main.get_soil_data
UtilsFetched == endpoint = "soil-data" /\ pc = "done"

\* C5: on the prediction path a property whose answer was null, missing or non-200
\* holds its documented default raw value (sand 400, silt 350, clay 250, ocd 15) in the
\* result of SoilPredictor.get_soil_properties, as in utils.get_soil_properties.
C5_PredictorFieldDefaults ==
    PredictorFetched =>
        \A i \in 1..Len(upstream) :
            upstream[i].kind \in {"null", "missing", "status"} =>
                soil_results[properties_to_query[i]]
                    = get_default_value(properties_to_query[i])

\* C6: the fallback is per-field: a property fetched with a non-null value keeps that
\* value in the returned result even when the fetch of a later property fails or raises.
C6_FetchedValueKept ==
    (PredictorFetched \/ UtilsFetched) =>
        \A i \in 1..Len(upstream) :
            upstream[i].kind = "ok" =>
                soil_results[properties_to_query[i]] = upstream[i].value

\* C7: when every upstream field is null, the prediction path produces sand=40, silt=35,
\* clay=25, organic carbon=0.015, classified as LOAM with code 2.
C7_AllNullGivesDefaultLoam ==
    (/\ endpoint = "predict-ksat"
     /\ pc = "done"
     /\ http_status = 200
     /\ Len(upstream) = Len(properties_to_query)
     /\ \A i \in 1..Len(upstream) : upstream[i].kind = "null") =>
        /\ soil_data = [clay |-> 25 * Scale, silt |-> 35 * Scale, sand |-> 40 * Scale,
                        organic_carbon |-> (15 * Scale) \div 1000, texture_encoded |-> 2]
        /\ payload.soil_analysis.texture_class = "LOAM"

C9_GeneratedKsatInBand ==
    \A r \in 1..Len(runs) :
        runs[r].status = "ok" =>
            \A i \in 1..Len(runs[r].rows) :
                /\ runs[r].rows[i].Ksat >= Scale \div 2
                /\ runs[r].rows[i].Ksat <= 350 * Scale

\* C9 witness: one produced data set holds a value floored at 0.5 (noise drove
\* base + noise below it) and a value clipped at 350
C9_Witness ==
    \E r \in 1..Len(runs) :
        /\ runs[r].status = "ok"
        /\ \E i \in 1..Len(runs[r].rows) : runs[r].rows[i].Ksat = Scale \div 2
        /\ \E i \in 1..Len(runs[r].rows) : runs[r].rows[i].Ksat = 350 * Scale

\* C10: two runs of the generator with the same n_samples produce identical feature
\* rows and identical Ksat sequences.
C10_Reproducible ==
    (Len(runs) >= 2 /\ runs[1].n_samples = runs[2].n_samples) => runs[1] = runs[2]

(***************************************************************************)
(* Claims about the annotators (checked under SpecAnnotate)                *)
(***************************************************************************)

\* position of an infiltration tier in the order Very Low < Low < Moderate < High
TierRank(tier) ==
    CASE tier = "Very Low" -> 0
      [] tier = "Low" -> 1
      [] tier = "Moderate" -> 2
      [] tier = "High" -> 3
      [] OTHER -> -1

\* C11: the infiltration ladder is monotonic: for k1 <= k2 the tier of k2 is not lower
\* than the tier of k1, in format_soil_analysis and in SoilPredictor._analyze_soil
C11_LadderMonotonic ==
    /\ format_out # <<>> =>
          /\ TierRank(format_out[1].infiltration_rate) >= 0
          /\ TierRank(format_out[1].infiltration_rate)
                 <= TierRank(format_out[2].infiltration_rate)
    /\ analyze_out # <<>> =>
          /\ TierRank(analyze_out[1].infiltrationCategory) >= 0
          /\ TierRank(analyze_out[1].infiltrationCategory)
                 <= TierRank(analyze_out[2].infiltrationCategory)

\* both ladders ran on a pair that lies on the two sides of a step
C11_Witness ==
    /\ format_out # <<>>
    /\ analyze_out # <<>>
    /\ ksat_values[1] = 50 * Scale
    /\ ksat_values[2] = 50 * Scale + 1
    /\ format_out[1].infiltration_rate = "Low"
    /\ format_out[2].infiltration_rate = "Moderate"
    /\ analyze_out[1].infiltrationCategory = "Low"
    /\ analyze_out[2].infiltrationCategory = "Moderate"

\* C12: the confidence score is within [0.5, 0.95], for calculate_confidence_score on any
\* Ksat value and soil dict (keys may be missing) and for the confidence of predict
C12_ConfidenceInRange ==
    confidence_out # <<>> =>
        /\ (5 * Scale) \div 10 <= confidence_out[1]
        /\ confidence_out[1] <= (95 * Scale) \div 100
        /\ (5 * Scale) \div 10 <= confidence_out[2]
        /\ confidence_out[2] <= (95 * Scale) \div 100

\* a dict without keys and a Ksat far from 50: the score takes both penalties, and the
\* confidence of predict sits on its lower clamp
C12_Witness ==
    /\ confidence_out # <<>>
    /\ soil_dict = <<>>
    /\ ksat_values[2] = 400 * Scale
    /\ confidence_out[1] = (65 * Scale) \div 100
    /\ confidence_out[2] = (5 * Scale) \div 10

(***************************************************************************)
(* Claims about the lookups (checked under SpecLookup)                     *)
(***************************************************************************)

\* analyze_location_risk ran and found the location
LocationFound == gw_analysis # <<>> /\ "status" \notin DOMAIN gw_analysis[1]

\* analyze_location_risk ran and did not find the location
LocationNotFound == gw_analysis # <<>> /\ "status" \in DOMAIN gw_analysis[1]

\* C16 as stated: for every found location, whatever its category, suitable equals
\* (category != 'Over-exploited')
C16_SuitableUnlessOverExploited ==
    LocationFound =>
        gw_analysis[1].suitability_for_recharge.suitable
            = (gw_analysis[1].groundwater_status.category # "Over-exploited")

\* C16 amended: for a found location whose category is Safe, Semi-critical, Critical or
\* Over-exploited, suitable equals (category != 'Over-exploited'); for any other category
\* (missing, null or unrecognized) suitable is False
C16_SuitableForListedCategories ==
    LocationFound =>
        LET category == gw_analysis[1].groundwater_status.category
            suitable == gw_analysis[1].suitability_for_recharge.suitable
        IN  IF category \in {"Safe", "Semi-critical", "Critical", "Over-exploited"}
            THEN suitable = (category # "Over-exploited")
            ELSE suitable = FALSE

\* a found location whose entry has no Category key: reported as Unknown, not suitable
C16_Witness ==
    /\ LocationFound
    /\ DictGet(find_key_insensitive(find_key_insensitive(find_key_insensitive(
                   groundwater_data, "Delhi"), "North Delhi"), "Narela"),
               "Category", "<missing>") = "<missing>"
    /\ Lower(gw_query.location) = "narela"
    /\ gw_analysis[1].groundwater_status.category = "Unknown"
    /\ gw_analysis[1].suitability_for_recharge.suitable = FALSE

\* the fixed table of the risk chain
RiskTable ==
    <<<<"Over-exploited", <<"High", 90>>>>, <<"Critical", <<"Moderate-High", 75>>>>,
      <<"Semi-critical", <<"Moderate", 60>>>>, <<"Safe", <<"Low", 30>>>>>>

\* the table has the queried state, a district of that name under it and a location of
\* that name under the district, letter case aside
QueryKeysInTable ==
    \E i \in 1..Len(groundwater_data) :
        /\ Lower(groundwater_data[i][1]) = Lower(gw_query.state)
        /\ \E j \in 1..Len(groundwater_data[i][2]) :
              /\ Lower(groundwater_data[i][2][j][1]) = Lower(gw_query.district)
              /\ \E k \in 1..Len(groundwater_data[i][2][j][2]) :
                    Lower(groundwater_data[i][2][j][2][k][1]) = Lower(gw_query.location)

\* C17: a found location's category maps to (risk level, risk score) by the fixed table,
\* any other category to Unknown/50; a location not found at the state, district or
\* location level yields the error result instead of a risk score
C17_RiskTable ==
    /\ LocationFound =>
          /\ QueryKeysInTable
          /\ <<gw_analysis[1].risk_analysis.risk_level,
               gw_analysis[1].risk_analysis.risk_score>>
                 = DictGet(RiskTable, gw_analysis[1].groundwater_status.category,
                           <<"Unknown", 50>>)
    /\ (gw_analysis # <<>> /\ ~QueryKeysInTable) =>
          gw_analysis[1] = [status |-> "error", message |-> "Location not found"]

\* a Critical location asked for in another letter case is found and scored 75
C17_Witness ==
    /\ LocationFound
    /\ gw_query = [state |-> "delhi", district |-> "NORTH DELHI", location |-> "narela"]
    /\ gw_analysis[1].groundwater_status.category = "Critical"
    /\ gw_analysis[1].risk_analysis.risk_level = "Moderate-High"
    /\ gw_analysis[1].risk_analysis.risk_score = 75

\* C18: _categorize_rainfall follows <250 Arid, <500 Semi-Arid, <1000 Sub-Humid,
\* <2000 Humid, else Very Humid with strict comparisons: each boundary value belongs to
\* the upper class, and 1200 is Humid (High Rainfall)
C18_RainfallLadder ==
    rainfall_category # "" =>
        /\ rainfall_category =
              (CASE annual_rainfall_mm < 250 * Scale -> "Arid (Very Low Rainfall)"
                 [] annual_rainfall_mm >= 250 * Scale /\ annual_rainfall_mm < 500 * Scale
                        -> "Semi-Arid (Low Rainfall)"
                 [] annual_rainfall_mm >= 500 * Scale /\ annual_rainfall_mm < 1000 * Scale
                        -> "Sub-Humid (Moderate Rainfall)"
                 [] annual_rainfall_mm >= 1000 * Scale /\ annual_rainfall_mm < 2000 * Scale
                        -> "Humid (High Rainfall)"
                 [] annual_rainfall_mm >= 2000 * Scale -> "Very Humid (Very High Rainfall)")
        /\ annual_rainfall_mm = 250 * Scale => rainfall_category = "Semi-Arid (Low Rainfall)"
        /\ annual_rainfall_mm = 500 * Scale
              => rainfall_category = "Sub-Humid (Moderate Rainfall)"
        /\ annual_rainfall_mm = 1000 * Scale => rainfall_category = "Humid (High Rainfall)"
        /\ annual_rainfall_mm = 2000 * Scale
              => rainfall_category = "Very Humid (Very High Rainfall)"
        /\ annual_rainfall_mm = 1200 * Scale => rainfall_category = "Humid (High Rainfall)"

\* exactly 250 mm was categorized
C18_Witness ==
    /\ annual_rainfall_mm = 250 * Scale
    /\ rainfall_category = "Semi-Arid (Low Rainfall)"

(***************************************************************************)
(* Claims about the request handlers (checked under SpecServe)             *)
(***************************************************************************)

\* the index fields of a list of batch entries
Indexes(entries) == {entries[i].index : i \in 1..Len(entries)}

\* the index fields of a list of batch entries grow along the list
IndexesAscend(entries) ==
    \A i \in 1..Len(entries), j \in 1..Len(entries) :
        i < j => entries[i].index < entries[j].index

\* the request was not answered and nothing was fetched or predicted for it
NoWorkDone ==
    /\ upstream = <<>>
    /\ soil_results = <<>>
    /\ soil_data = NoSoilData
    /\ raw_prediction = NoPrediction
    /\ predictions = <<>>
    /\ failed_predictions = <<>>
    /\ rainfall_calls = 0

\* every coordinate of the request is within [-90, 90] x [-180, 180]
CoordinatesInRange ==
    \A i \in 1..Len(request.coordinates) : prediction_request_valid(request.coordinates[i])

\* batch_predict_ksat got past its two guards
BatchAccepted ==
    /\ endpoint = "batch-predict-ksat"
    /\ http_status \in {0, 200}

\* C13: batch isolation: for n <= 100 coordinates, whichever predictions raise, the
\* items are processed in index order (at every moment the recorded indexes are exactly
\* 0 .. k-1, each in one of the two lists), none is skipped after a failure, and at the
\* end every index 0 .. n-1 is in exactly one list and
\* successful_predictions + failed_predictions = total_requested = n
C13_BatchIsolation ==
    BatchAccepted =>
        /\ Indexes(predictions) \cap Indexes(failed_predictions) = {}
        /\ Indexes(predictions) \cup Indexes(failed_predictions) = 0..(batch_index - 1)
        /\ IndexesAscend(predictions)
        /\ IndexesAscend(failed_predictions)
        /\ pc = "done" =>
              /\ http_status = 200
              /\ batch_index = Len(request.coordinates)
              /\ payload.predictions = predictions
              /\ payload.failed_predictions = failed_predictions
              /\ payload.summary.total_requested = Len(request.coordinates)
              /\ payload.summary.successful_predictions = Len(predictions)
              /\ payload.summary.failed_predictions = Len(failed_predictions)
              /\ payload.summary.successful_predictions
                     + payload.summary.failed_predictions
                     = payload.summary.total_requested

\* the first item of a batch of two failed and the second was still predicted
C13_Witness ==
    /\ BatchAccepted
    /\ pc = "done"
    /\ Len(request.coordinates) = 2
    /\ Indexes(failed_predictions) = {0}
    /\ Indexes(predictions) = {1}
    /\ payload.summary.total_requested = 2

\* C14 as stated: a batch of more than 100 coordinates is rejected with a client error
\* before any item is predicted and before any upstream call; a batch of exactly 100 is
\* accepted
C14_BatchLimit ==
    endpoint = "batch-predict-ksat" =>
        /\ Len(request.coordinates) > BatchLimit =>
              /\ pc = "done"
              /\ http_status \in 400..499
              /\ NoWorkDone
        /\ (Len(request.coordinates) = BatchLimit /\ CoordinatesInRange) =>
              http_status \in {0, 200}

\* C14 amended: while the predictor is ready, a batch of more than 100 coordinates is
\* rejected with a client error (400, or 422 when an item is not a valid
\* PredictionRequest) before any item is predicted and before any upstream call, and a
\* batch of exactly 100 valid coordinates is accepted; while the predictor is not ready
\* a well-formed batch of any length is answered 503
C14_BatchLimitWhenReady ==
    endpoint = "batch-predict-ksat" =>
        /\ (predictor_ready /\ Len(request.coordinates) > BatchLimit) =>
              /\ pc = "done"
              /\ http_status = (IF CoordinatesInRange THEN 400 ELSE 422)
              /\ NoWorkDone
        /\ (predictor_ready /\ Len(request.coordinates) = BatchLimit /\ CoordinatesInRange) =>
              http_status \in {0, 200}
        /\ (~predictor_ready /\ CoordinatesInRange) =>
              /\ pc = "done"
              /\ http_status = 503
              /\ NoWorkDone

\* a ready service rejected 101 valid coordinates with 400
C14_Witness ==
    /\ endpoint = "batch-predict-ksat"
    /\ predictor_ready
    /\ request.coordinates = CoordinateList(BatchLimit + 1)
    /\ pc = "done"
    /\ http_status = 400

\* C15: while the predictor is absent or not ready (startup still running included),
\* predict_ksat and batch_predict_ksat answer 503 to every request that reaches them,
\* with no soil fetch, no prediction and nothing done afterwards; a direct call of
\* SoilPredictor.predict raises while is_model_ready is false
C15_ModelNotReady ==
    /\ (/\ endpoint \in {"predict-ksat", "batch-predict-ksat"}
        /\ CoordinatesInRange
        /\ ~predictor_ready) =>
          /\ pc = "done"
          /\ http_status = 503
          /\ NoWorkDone
    /\ (endpoint = "predict" /\ ~is_model_ready) =>
          /\ pc = "done"
          /\ raised = "RuntimeError"
          /\ NoWorkDone

\* a batch that arrived while startup was still running was answered 503
C15_Witness ==
    /\ endpoint = "batch-predict-ksat"
    /\ startup = "pending"
    /\ request.coordinates = CoordinateList(MaxBatchItems)
    /\ pc = "done"
    /\ http_status = 503

\* the operations that take a latitude and a longitude
CoordinateEndpoints ==
    {"predict-ksat", "batch-predict-ksat", "soil-data"} \cup RainfallEndpoints

\* C19: on every endpoint that takes a latitude and longitude, a latitude outside
\* [-90, 90] or a longitude outside [-180, 180] is rejected with a client error before
\* any upstream provider is contacted (a 503 of a rainfall service that is not up yet is
\* not held against the claim)
C19_CoordinatesValidated ==
    (endpoint \in CoordinateEndpoints /\ ~CoordinatesInRange) =>
        /\ NoWorkDone
        /\ pc = "done" => http_status \in (400..499) \cup {503}

\* the three percentages are each in [0, 100] and sum to within 1 of 100
NearHundred(c) ==
    /\ c.sand >= 0 /\ c.sand <= 100 * Scale
    /\ c.silt >= 0 /\ c.silt <= 100 * Scale
    /\ c.clay >= 0 /\ c.clay <= 100 * Scale
    /\ c.sand + c.silt + c.clay >= 99 * Scale
    /\ c.sand + c.silt + c.clay <= 101 * Scale

\* C20: the classifier is only invoked on a composition whose percentages are each in
\* [0, 100] and sum to within 1 of 100: the texture-classification endpoint answers any
\* other input with 400 (never 500), and the prediction path, even when the provider
\* answered every property with a value, classifies only such a composition
C20_ClassifierInputsNearHundred ==
    /\ endpoint = "texture-classification" =>
          http_status = (IF NearHundred(request.composition) THEN 200 ELSE 400)
    /\ (/\ endpoint \in {"predict-ksat", "predict"}
        /\ soil_data # NoSoilData
        /\ \A i \in 1..Len(upstream) : upstream[i].kind = "ok") =>
          NearHundred(soil_data)

(***************************************************************************)
(* Claims about the agreement of the two annotators                        *)
(***************************************************************************)

\* the tier the strict thresholds 100, 50 and 20 give a Ksat value
StrictTier(ksat) ==
    IF ksat > 100 * Scale THEN "High"
    ELSE IF ksat > 50 * Scale THEN "Moderate"
    ELSE IF ksat > 20 * Scale THEN "Low"
    ELSE "Very Low"

\* C29: for every Ksat value the infiltration_rate of utils.format_soil_analysis equals
\* the infiltrationCategory of SoilPredictor._analyze_soil, and both are the tier of the
\* strict thresholds 100, 50 and 20
C29_LaddersAgree ==
    (format_out # <<>> /\ analyze_out # <<>>) =>
        \A i \in 1..2 :
            /\ format_out[i].infiltration_rate = analyze_out[i].infiltrationCategory
            /\ format_out[i].infiltration_rate = StrictTier(ksat_values[i])

\* both annotators ran on a threshold value and on the next value above it
C29_Witness ==
    /\ format_out # <<>>
    /\ analyze_out # <<>>
    /\ ksat_values[1] = 100 * Scale
    /\ ksat_values[2] = 100 * Scale + 1
    /\ format_out[1].infiltration_rate = "Moderate"
    /\ analyze_out[1].infiltrationCategory = "Moderate"
    /\ format_out[2].infiltration_rate = "High"
    /\ analyze_out[2].infiltrationCategory = "High"

(***************************************************************************)
(* Claims about the arithmetic of calculate_confidence_score               *)
(***************************************************************************)

\* the doubles of the six decimal literals 0.65, 0.75, 0.80, 0.85, 0.90, 0.95
ScoreLiterals == {double_of(n) : n \in {65, 75, 80, 85, 90, 95}}

\* the Ksat value lies in [10, 150] and the three percentages sum within [95, 105]
TopScoreCase ==
    /\ 10 * Scale <= ksat_values[2]
    /\ ksat_values[2] <= 150 * Scale
    /\ 95 * Scale <= DictGet(soil_dict, "sand", 0) + DictGet(soil_dict, "silt", 0)
                         + DictGet(soil_dict, "clay", 0)
    /\ DictGet(soil_dict, "sand", 0) + DictGet(soil_dict, "silt", 0)
           + DictGet(soil_dict, "clay", 0) <= 105 * Scale

\* C30: the final clamp of calculate_confidence_score never changes the result: the
\* unclamped score is one of 0.65, 0.75, 0.80, 0.85, 0.90, 0.95, and 0.95 is returned
\* exactly when 10 <= ksat <= 150 and the percentages sum within [95, 105]
C30_ClampNeverActs ==
    confidence_out # <<>> =>
        /\ confidence_out[3].returned = confidence_out[3].unclamped
        /\ confidence_out[3].unclamped \in ScoreLiterals
        /\ confidence_out[3].returned = double_of(95) <=> TopScoreCase

\* C30, amended: the unclamped score is at most one unit in the last place above one of
\* the six literals; the clamp changes it exactly in the top case, where the sum
\* 0.8 + 0.1 + 0.05 is one unit in the last place above 0.95 and is brought down to 0.95;
\* 0.95 is returned exactly in the top case
C30_ClampActsOnTopCaseOnly ==
    confidence_out # <<>> =>
        /\ \E lit \in ScoreLiterals :
              /\ confidence_out[3].unclamped.n = lit.n
              /\ confidence_out[3].unclamped.e \in {lit.e, lit.e + double_ulp(lit.n)}
        /\ confidence_out[3].returned # confidence_out[3].unclamped <=> TopScoreCase
        /\ TopScoreCase =>
              confidence_out[3].unclamped =
                  [n |-> 95, e |-> double_of(95).e + double_ulp(95)]
        /\ confidence_out[3].returned = double_of(95) <=> TopScoreCase

\* the score of a Ksat value in [10, 150] with a composition summing to exactly 95: the
\* sum came out above 0.95 and the clamp returned 0.95
C30_Witness ==
    /\ confidence_out # <<>>
    /\ ksat_values[2] = 150 * Scale
    /\ DictGet(soil_dict, "sand", 0) + DictGet(soil_dict, "silt", 0)
           + DictGet(soil_dict, "clay", 0) = 95 * Scale
    /\ double_lt(double_of(95), confidence_out[3].unclamped)
    /\ confidence_out[3].returned = double_of(95)

(***************************************************************************)
(* Claims about the documented cascade and the code's cascades             *)
(***************************************************************************)

\* the documented cascade of twelve ordered rules, first match wins
documented_cascade(sand, silt, clay) ==
    IF silt + clay < 20 * Scale THEN "SAND"
    ELSE IF sand > 52 * Scale /\ silt < 50 * Scale /\ clay < 20 * Scale THEN "LOAMY SAND"
    ELSE IF sand > 52 * Scale /\ (silt >= 50 * Scale \/ clay >= 20 * Scale)
        THEN "SANDY LOAM"
    ELSE IF silt >= 80 * Scale /\ clay < 12 * Scale THEN "SILT"
    ELSE IF silt >= 50 * Scale /\ 12 * Scale <= clay /\ clay < 27 * Scale THEN "SILT LOAM"
    ELSE IF clay >= 27 * Scale /\ sand <= 45 * Scale THEN "CLAY LOAM"
    ELSE IF 20 * Scale <= clay /\ clay < 27 * Scale /\ 28 * Scale <= silt
            /\ silt < 50 * Scale /\ sand <= 52 * Scale
        THEN "LOAM"
    ELSE IF clay >= 35 * Scale /\ sand > 45 * Scale THEN "SANDY CLAY"
    ELSE IF clay >= 35 * Scale /\ silt > 40 * Scale THEN "SILTY CLAY"
    ELSE IF 27 * Scale <= clay /\ clay < 40 * Scale /\ sand > 45 * Scale
        THEN "SANDY CLAY LOAM"
    ELSE IF 27 * Scale <= clay /\ clay < 40 * Scale /\ silt > 28 * Scale
            /\ sand <= 45 * Scale
        THEN "SILTY CLAY LOAM"
    ELSE "Unknown"

\* SILT LOAM and SILTY LOAM are one label
OneSiltLoam(label) == IF label = "SILTY LOAM" THEN "SILT LOAM" ELSE label

\* C24: for every triple the label of utils.classify_soil_texture and the label of
\* KsatModelTrainer._classify_soil_texture equal the label of the first matching rule of
\* the documented cascade (SILT LOAM and SILTY LOAM being one label), the exact boundary
\* values 12, 20, 27, 28, 35, 40, 45, 50, 52 and 80 included
C24_CodeFollowsDocumentedCascade ==
    /\ utils_out # <<>> =>
          OneSiltLoam(utils_out[1])
              = documented_cascade(triple.sand, triple.silt, triple.clay)
    /\ trainer_out # <<>> =>
          OneSiltLoam(trainer_out[1])
              = documented_cascade(triple.sand, triple.silt, triple.clay)

\* a triple on three boundaries at once (clay exactly 27, silt exactly 28, sand exactly
\* 45), classified CLAY LOAM by both classifiers
C24_Witness ==
    /\ triple = [sand |-> 45 * Scale, silt |-> 28 * Scale, clay |-> 27 * Scale]
    /\ utils_out # <<>>
    /\ trainer_out # <<>>
    /\ utils_out[1] = "CLAY LOAM"
    /\ trainer_out[1] = "CLAY LOAM"

(***************************************************************************)
(* Claims about the labels the cascade cannot return                       *)
(***************************************************************************)

DeadLabels == {"CLAY", "SILTY CLAY", "SILTY CLAY LOAM"}

\* the triple satisfies the condition of the SILTY CLAY rule
SiltyClayCondition ==
    triple.clay >= 35 * Scale /\ triple.silt > 40 * Scale

\* the triple satisfies the condition of the SILTY CLAY LOAM rule
SiltyClayLoamCondition ==
    /\ triple.clay >= 27 * Scale
    /\ triple.clay < 40 * Scale
    /\ triple.silt > 28 * Scale
    /\ triple.sand <= 45 * Scale

\* no classifier returned CLAY, SILTY CLAY or SILTY CLAY LOAM, and the generator's
\* factor for the label the trainer returned is not 0.3
NoDeadLabel ==
    /\ utils_out # <<>> => utils_out[1] \notin DeadLabels
    /\ predictor_out # <<>> => predictor_out[1] \notin DeadLabels
    /\ trainer_out # <<>> =>
          /\ trainer_out[1] \notin DeadLabels
          /\ texture_adjustment(trainer_out[1]) # 3

\* every classifier that ran on a triple satisfying one of the two conditions returned
\* one of the given labels
CapturedBy(labels) ==
    (SiltyClayCondition \/ SiltyClayLoamCondition) =>
        /\ utils_out # <<>> => utils_out[1] \in labels
        /\ predictor_out # <<>> => predictor_out[1] \in labels
        /\ trainer_out # <<>> => trainer_out[1] \in labels

\* C27: the classifier never returns CLAY, SILTY CLAY or SILTY CLAY LOAM for any triple:
\* every input satisfying the SILTY CLAY or SILTY CLAY LOAM condition is already captured
\* by an earlier rule, CLAY LOAM or SANDY CLAY, so the x0.3 factor of the synthetic
\* generator is never applied
C27_DeadLabelsCapturedByTwoRules ==
    NoDeadLabel /\ CapturedBy({"CLAY LOAM", "SANDY CLAY"})

\* C27, amended: the three labels are never returned and the x0.3 factor never applied;
\* the inputs satisfying the SILTY CLAY or SILTY CLAY LOAM condition are captured by
\* CLAY LOAM, by SANDY CLAY or, when sand exceeds 52, by SANDY LOAM
C27_DeadLabelsCapturedByThreeRules ==
    NoDeadLabel /\ CapturedBy({"CLAY LOAM", "SANDY CLAY", "SANDY LOAM"})

\* all three classifiers ran on a triple that satisfies the SILTY CLAY condition with
\* sand above 52, and on it returned SANDY LOAM
C27_Witness ==
    /\ SiltyClayCondition
    /\ triple.sand > 52 * Scale
    /\ utils_out # <<>>
    /\ predictor_out # <<>>
    /\ trainer_out # <<>>
    /\ trainer_out[1] = "SANDY LOAM"
    /\ utils_out[1] = "SANDY LOAM"

(***************************************************************************)
(* Claims about the compositions of the synthetic generator                *)
(***************************************************************************)

\* C26: every sample of the synthetic generator is a valid composition: for every draw
\* of the clay proportion (scaled by 60) and of the sand proportion (scaled by 85) the
\* resulting clay, silt and sand each lie in [0, 100] and sum to exactly 100
C26_SyntheticCompositionValid ==
    \A r \in 1..Len(runs) :
        \A i \in 1..Len(runs[r].rows) :
            /\ runs[r].rows[i].Clay >= 0
            /\ runs[r].rows[i].Clay <= 100 * Scale
            /\ runs[r].rows[i].Silt >= 0
            /\ runs[r].rows[i].Silt <= 100 * Scale
            /\ runs[r].rows[i].Sand >= 0
            /\ runs[r].rows[i].Sand <= 100 * Scale
            /\ runs[r].rows[i].Clay + runs[r].rows[i].Silt + runs[r].rows[i].Sand
                   = 100 * Scale

(***************************************************************************)
(* Claims about upstream failures on the prediction path                   *)
(***************************************************************************)

\* SoilPredictor.get_soil_properties has returned to predict on the /predict-ksat path
SoilPropertiesReturned ==
    endpoint = "predict-ksat" /\ pc \in {"predict", "done"} /\ upstream # <<>>

\* C23: whichever of the four soil-property fetches fails (non-200 status, malformed
\* body, null value or a raised network exception), SoilPredictor.get_soil_properties
\* returns a value for all four properties and predict_ksat answers with a prediction:
\* an error answer comes only from the regressor, never from the provider
C23_UpstreamFailureNotSurfaced ==
    SoilPropertiesReturned =>
        /\ DOMAIN soil_results = {"sand", "silt", "clay", "ocd"}
        /\ pc = "done" =>
              /\ http_status \in {200, 500}
              /\ http_status = 500 <=> raw_prediction.status = "raise"
              /\ http_status = 200 =>
                    /\ "ksat" \in DOMAIN payload
                    /\ "soil_properties" \in DOMAIN payload

\* a prediction was served although the first fetch got a non-200 answer, the second a
\* body without the value, the third a null and the fourth raised
C23_Witness ==
    /\ SoilPropertiesReturned
    /\ pc = "done"
    /\ http_status = 200
    /\ Len(upstream) = 4
    /\ upstream[1].kind = "status"
    /\ upstream[2].kind = "missing"
    /\ upstream[3].kind = "null"
    /\ upstream[4].kind = "raise"
    /\ "ksat" \in DOMAIN payload

(***************************************************************************)
(* Claims about the trainer                                                *)
(***************************************************************************)

\* the last call wrote the model file and the metadata file
SaveCompleted ==
    /\ last_call.call \in {"save_model", "full_training_pipeline"}
    /\ last_call.save_reached
    /\ last_call.raised = ""

\* C25: the hyperparameters save_model writes to the metadata record are the
\* hyperparameters the saved model was fitted with, after any sequence of
\* optimize_hyperparameters, train_model (with or without a params argument) and
\* save_model calls
C25_MetadataNamesFittedParams ==
    SaveCompleted =>
        storage.metadata_file[1].hyperparameters = storage.model_file[1].params

\* C28: save_model called while no model has been trained raises ValueError and leaves
\* storage unchanged (no directory created, neither file written), and in
\* full_training_pipeline the save step happens only after train_model has completed
C28_SaveNeedsTrainedModel ==
    /\ (last_call.call = "save_model" /\ ~last_call.trained_before) =>
          /\ last_call.raised = "ValueError"
          /\ storage = last_call.storage_before
    /\ (last_call.call = "full_training_pipeline" /\ last_call.save_reached) =>
          last_call.train_completed

(***************************************************************************)
(* Claims about the service lifecycle (checked under SpecLife)             *)
(***************************************************************************)

\* get_soil_properties replayed on the provider answers one location received alone
RECURSIVE soil_results_after(_, _)
soil_results_after(answers, k) ==
    IF k = 0 THEN <<>>
    ELSE predictor_fetch_step(soil_results_after(answers, k - 1),
                              properties_to_query[k], answers[k])

\* predict on the provider answers of one location, with nothing else running
predict_alone(answers) ==
    LET data == convert_soilgrids_data(soil_results_after(answers, Len(answers)))
    IN  predict_result(data, model_predict(model, data))

\* the attributes of the predictor that requests share
PredictorAttributes == <<model, is_model_ready, texture_encoding, best_params>>

\* every provider answer a request has received is the provider's answer for the
\* request's own location
OwnAnswers(task) ==
    \A i \in 1..Len(task.upstream) : \A k \in 1..Len(task.upstream[i]) :
        task.upstream[i][k] \in ProviderAnswers(task.coordinates[i], properties_to_query[k])

\* C21: the loaded model is read-only after initialization.  Under every interleaving
\* of predict-ksat, batch-predict-ksat, model-info and health requests no step after
\* startup changes the predictor's model, is_model_ready, texture_encoding or
\* best_params, and each prediction a request has produced is what predict gives on
\* the request's own coordinates and own provider answers alone.
C21_ModelReadOnlyAfterInit ==
    /\ [][startup = "done" => UNCHANGED PredictorAttributes]_vars
    /\ [](\A t \in 1..MaxRequests :
            /\ OwnAnswers(tasks[t])
            /\ \A i \in 1..Len(tasks[t].results) :
                  tasks[t].results[i] = predict_alone(tasks[t].upstream[i]))

\* a request that arrived second has answered with its prediction while the first,
\* for another location, is still between two provider calls
C21_Witness ==
    /\ tasks[1].pc = "fetch"
    /\ Len(tasks[1].upstream[1]) > 0
    /\ tasks[2].pc = "done"
    /\ Len(tasks[2].results) > 0
    /\ tasks[1].coordinates[1] # tasks[2].coordinates[1]

\* C22: load-on-startup with fallback.  When initialize returned normally is_ready()
\* is true; with a stored model file the model was loaded, nothing was trained and no
\* file was written; with none a model was trained on synthetic data and saved; when
\* loading, training or saving raised, initialize raised and is_ready() is false.
C22_LoadOnStartupWithFallback ==
    /\ startup = "done" =>
          /\ is_ready
          /\ ~init_log.raised
          /\ init_log.file_before # "absent" =>
                /\ init_log.loaded /\ model = "loaded"
                /\ ~init_log.trained /\ init_log.writes = 0
                /\ model_file = init_log.file_before
          /\ init_log.file_before = "absent" =>
                /\ init_log.trained /\ model = "trained"
                /\ ~init_log.loaded
                /\ init_log.writes = 1 /\ model_file = "written"
    /\ startup = "failed" => init_log.raised /\ ~is_ready
    /\ startup # "pending" /\ ~is_ready => startup = "failed"
    /\ startup # "pending" /\ model_file \notin {"stored", "written"} => startup = "failed"

\* startup fell back to training: there was no file, now there is one and the
\* predictor is ready
C22_Witness ==
    /\ startup = "done"
    /\ init_log.file_before = "absent"
    /\ model_file = "written"
    /\ is_ready

====
